---------------------------- MODULE Spec2Model ----------------------------
(***************************************************************************)
(* Model of the Warrior ENS API (src/src/index.ts): the provider rotation  *)
(* controller (ProviderManager), the two-tier cache (CacheManager) and the *)
(* lookup handlers built on them.                                          *)
(*                                                                         *)
(* JavaScript runs one continuation at a time: the code between two awaits *)
(* is one atomic step.  Every action below is one such piece of code.  A   *)
(* continuation that is ready to run (its awaited promise is settled) runs *)
(* before the next I/O event is delivered, as the microtask queue drains   *)
(* before the event loop takes the next callback; continuations that are   *)
(* ready together run in any order.                                        *)
(*                                                                         *)
(* Two specifications share the state:                                     *)
(*   Spec        callers of ProviderManager.executeWithFallback            *)
(*   LookupSpec  the HTTP handlers, with the cache and the provider manager*)
(***************************************************************************)
EXTENDS Integers, Sequences, FiniteSets, TLC

\* ------------------------------------------------------------------ sizes

\* CONFIG.RPC_PROVIDERS holds four URLs.
NumProviders == 4

\* Default value of executeWithFallback's maxRetries parameter.
DefaultMaxRetries == 3

\* Number of calls (requests) that may be in flight at the same time.
MaxTasks == 3

\* Number of executeWithFallback calls started in one behaviour of Spec.
MaxCalls == 2

\* Number of lookups (batch sub-operations included) in flight at the same
\* time in LookupSpec.
MaxLookups == 1

\* Number of lookups (batch sub-operations included) started in one behaviour
\* of LookupSpec.
MaxRequests == 2

\* Number of upstream calls that fail on the network in one behaviour of
\* LookupSpec.
MaxFaults == 1

\* Mutant: one more endpoint than the ring of the cursor goes round.
EndpointsBeyondRing == 0 .. NumProviders

\* The indices of this.providers.
Endpoints == 0 .. (NumProviders - 1)
Tasks == 1 .. MaxTasks

\* Messages of the errors an upstream call can fail with.
ErrMsgs == {"timeout", "bad response"}

\* Values the operation of a direct caller can produce.
Values == {"v1"}

NoError == "none"
NoValue == [kind |-> "none"]

\* JavaScript null, as an address or a name.
Null == "null"

\* JavaScript undefined: what resolver?.getAvatar() gives without a resolver.
Undefined == "undefined"

VARIABLES
  currentIndex,   \* ProviderManager.currentIndex
  failureCount,   \* ProviderManager.failureCount: a Map, here a function on the keys set so far
  memoryCache,    \* CacheManager.memoryCache: key -> value, on the keys it holds
  redisOn,        \* CacheManager.redisClient is not null
  redisStore,     \* what the Redis server holds: key -> serialized value and expiry
  stats,          \* CacheManager.stats
  registry,       \* the chain: what the upstream endpoints answer for each name
  task,           \* the calls in flight: local variables and position of each
  started,        \* number of calls (requests) started so far
  faults,         \* number of upstream network failures the lookups may still see
  hist,           \* per call: what it saw and did (history, not program state)
  lastResp,       \* the response sent by the step just taken, if it sent one
  resolverTexts,  \* the chain: what resolver.getText gives for each text key
  recordEntries,  \* the records operation: what each recordPromise has settled with
  records,        \* the records operation: the object it returns, once it has
  clients,        \* the WebSocket connections: connectedClients and each connection's closure
  notifier,       \* the block listener: the endpoint it is attached to, what its last event did
  cacheCall,      \* direct callers of the CacheManager: local variables and position of each
  redisQueue,     \* the direct callers whose Redis command awaits its reply, oldest first
  lastRet,        \* what the cache call that returned in the step just taken returned
  proc            \* the process: servers, shutdowns under way, the top-level event just handled

pmVars == <<currentIndex, failureCount>>
cacheVars == <<memoryCache, redisStore, stats>>
recVars == <<resolverTexts, recordEntries, records>>
wsVars == <<clients, notifier>>
ccVars == <<cacheCall, redisQueue, lastRet>>
vars == <<currentIndex, failureCount, memoryCache, redisOn, redisStore, stats,
          registry, task, started, faults, hist, lastResp,
          resolverTexts, recordEntries, records, clients, notifier,
          cacheCall, redisQueue, lastRet, proc>>

\* ------------------------------------------------------- ProviderManager

\* this.failureCount.get(i) || 0
Count(fc, i) == IF i \in DOMAIN fc THEN fc[i] ELSE 0

\* Map.set(k, v), for failureCount and for the stores of the cache
MapSet(fc, i, n) == [j \in (DOMAIN fc) \cup {i} |-> IF j = i THEN n ELSE fc[j]]

\* Mutant: the cursor advances without wrapping around.
NextIndexNoWrap(i) == i + 1

\* this.currentIndex = (this.currentIndex + 1) % this.providers.length
NextIndex(i) == (i + 1) % NumProviders

\* Mutant: a success also sends the cursor back to the first endpoint.
OnSuccessResetCursor(idx, fc) == [idx |-> 0, fc |-> MapSet(fc, idx, 0)]

\* The try branch after the await: the counter of the endpoint under the
\* cursor, as the cursor is when the call resumes, is set to 0.
OnSuccess(idx, fc) == [idx |-> idx, fc |-> MapSet(fc, idx, 0)]

\* Mutant: a failure advances the cursor and forgets to count.
OnFailureNoCount(idx, fc) == [idx |-> NextIndex(idx), fc |-> fc]

\* The catch branch: the counter of the endpoint under the cursor, as the
\* cursor is when the call resumes, goes up by one and the cursor advances.
OnFailure(idx, fc) ==
  [idx |-> NextIndex(idx), fc |-> MapSet(fc, idx, Count(fc, idx) + 1)]

\* Mutant: the loop runs one attempt too many.
MoreAttemptsOffByOne(attempt, maxRetries) == attempt + 1 <= maxRetries

\* The for loop's test after attempt++ : is another attempt made?
MoreAttempts(attempt, maxRetries) == attempt + 1 < maxRetries

\* new Error(`All providers failed after ${maxRetries} attempts: ${lastError?.message}`)
\* A plain Error: no statusCode, no isOperational.
AllProvidersFailed(maxRetries, lastMsg) ==
  [kind |-> "error", name |-> "AllProvidersFailed", attempts |-> maxRetries,
   cause |-> lastMsg, statusCode |-> 0, isOperational |-> FALSE]

\* new Error(message): no status, not operational.
PlainError(message) ==
  [kind |-> "error", name |-> message, attempts |-> 0, cause |-> NoError,
   statusCode |-> 0, isOperational |-> FALSE]

\* createError(message, statusCode): an operational error with a status.
createError(message, statusCode) ==
  [kind |-> "error", name |-> message, attempts |-> 0, cause |-> NoError,
   statusCode |-> statusCode, isOperational |-> TRUE]

\* A free slot: no request, no call.
IdleTask ==
  [pc |-> "idle", kind |-> "none", name |-> Null, batch |-> 0, index |-> 0,
   maxRetries |-> 0, attempt |-> 0, provider |-> 0, lastError |-> NoError,
   out |-> NoValue, got |-> NoValue, result |-> NoValue, resp |-> NoValue]

\* History of a call: whether it ran with no other call in flight (alone) and,
\* while it did, the cursor (c0) and the counters (f0) it started from; the
\* number of times it invoked its operation, the number of those that failed
\* and the message of the last failure; what executeWithFallback returned to
\* it (upstream); whether its cache read found nothing (missed); whether the
\* memory-tier entry it read or wrote has run out of TTL since (expired); and,
\* for a single resolve that started right after another single resolve of the
\* same name was answered 200, with nothing happening since and that entry
\* still within its TTL, the address of that answer (after) and whether that
\* answer came from upstream (afterFresh); and the key and value its cache.set
\* put in the memory tier (wrote).
NoHist ==
  [c0 |-> 0, f0 |-> <<>>, alone |-> FALSE, invoked |-> 0, failed |-> 0,
   lastMsg |-> NoError, upstream |-> NoError, missed |-> FALSE,
   expired |-> FALSE, after |-> NoError, afterFresh |-> FALSE, wrote |-> NoValue]

Overlapped(h) == [h EXCEPT !.alone = FALSE, !.c0 = 0, !.f0 = <<>>]

\* Another request took a step, or time passed: h's request no longer follows
\* immediately.
Disturbed(h) == [h EXCEPT !.after = NoError, !.afterFresh = FALSE]

\* The history after a step of t that leaves t's history as h.
HistStep(t, h) == [u \in Tasks |-> IF u = t THEN h ELSE Disturbed(hist[u])]

\* The requests and calls in progress.
InFlight == {t \in Tasks : task[t].pc # "idle"}

\* The calls inside executeWithFallback.
InCall == {t \in Tasks : task[t].pc \in {"op", "returned", "threw"}}

\* A continuation of a handler is ready to run: a lookup has resumed from
\* cache.get, executeWithFallback or cache.set, or every sub-operation of a
\* batch has settled.  (A direct caller's "returned" and "threw" are where its
\* call ends.)
Pending ==
  \/ \E t \in Tasks : /\ task[t].kind # "exec"
                      /\ task[t].pc \in {"cacheGot", "returned", "threw", "cacheSet"}
  \/ /\ \E t \in Tasks : task[t].pc = "settled"
     /\ \A t \in Tasks : task[t].batch # 0 => task[t].pc = "settled"

\* The event loop delivers an I/O event only when no continuation is ready.
IOReady == ~Pending

\* The free slot a new call takes.
FreeSlot(t) == t \notin InFlight /\ \A u \in Tasks : u < t => u \in InFlight

\* Mutant: an attempt passes over an endpoint that has failures counted
\* against it.
AttemptedSkipsFailed(idx, fc) == IF Count(fc, idx) > 0 THEN NextIndex(idx) ELSE idx

\* const provider = this.providers[this.currentIndex]: the endpoint an
\* attempt goes to, with the cursor at idx and the failure counters fc.
Attempted(idx, fc) == idx

\* Mutant: a call for a name another call is already asking upstream about
\* joins that call instead of invoking its own operation.
EnteredJoining(tk, m) ==
  IF \E u \in Tasks : task[u].pc = "op" /\ task[u].kind = tk.kind /\ task[u].name = tk.name
  THEN [tk EXCEPT !.pc = "returned", !.maxRetries = m, !.attempt = 0,
                  !.provider = currentIndex, !.lastError = NoError,
                  !.out = [kind |-> "value", from |-> currentIndex, val |-> "0xA"]]
  ELSE [tk EXCEPT !.pc = "op", !.maxRetries = m, !.attempt = 0,
                  !.provider = currentIndex, !.lastError = NoError, !.out = NoValue]

\* executeWithFallback(operation, m) is entered: the loop's first iteration
\* reads the provider under the cursor and starts the operation on it.
Entered(tk, m) ==
  [tk EXCEPT !.pc = "op", !.maxRetries = m, !.attempt = 0,
             !.provider = Attempted(currentIndex, failureCount),
             !.lastError = NoError, !.out = NoValue]

\* The history when t enters executeWithFallback.
HistEntered(t) ==
  [u \in Tasks |->
     IF u = t
     THEN IF InCall = {}
          THEN [hist[t] EXCEPT !.c0 = currentIndex, !.f0 = failureCount,
                               !.alone = TRUE, !.invoked = 1]
          ELSE [hist[t] EXCEPT !.invoked = 1]
     ELSE Disturbed(Overlapped(hist[u]))]

\* A direct caller invokes executeWithFallback(operation, m).
Call(t, m) ==
  /\ IOReady
  /\ FreeSlot(t)
  /\ started < MaxCalls
  /\ started' = started + 1
  /\ task' = [task EXCEPT ![t] = Entered([IdleTask EXCEPT !.kind = "exec"], m)]
  /\ hist' = HistEntered(t)
  /\ lastResp' = NoValue
  /\ UNCHANGED <<pmVars, cacheVars, redisOn, registry, faults,
                 recVars, wsVars, ccVars, proc>>

\* What the operation of call t fulfils with: a direct caller's operation
\* yields any value; resolveName yields the name's address or null; the
\* records operation yields the text records, when the name has a resolver.
OpValues(t) ==
  CASE task[t].pc # "op" -> {}
    [] task[t].kind = "exec" -> Values
    [] task[t].kind \in {"resolve", "batchResolve", "search"} ->
         {registry[task[t].name].address}
    [] task[t].kind = "records" ->
         IF registry[task[t].name].resolver THEN {"text records"} ELSE {}
    [] task[t].kind \in {"reverse", "batchReverse"} -> {registry[task[t].name].name}
    [] task[t].kind = "avatar" ->
         {IF registry[task[t].name].resolver THEN registry[task[t].name].avatar
          ELSE Undefined}
    [] OTHER -> {}

\* What the operation of call t rejects with: an upstream failure, or, for
\* records, the 404 error the operation itself throws when getResolver
\* answers null.  ErrMsgs stands for the network errors; the lookups see one
\* of them, a bounded number of times.
OpErrors(t) ==
  CASE task[t].pc # "op" -> {}
    [] task[t].kind = "exec" -> ErrMsgs
    [] OTHER ->
         (IF faults > 0 THEN {"timeout"} ELSE {}) \cup
         (IF task[t].kind = "records" /\ ~registry[task[t].name].resolver
          THEN {"ENS resolver not found"} ELSE {})

\* The awaited operation(provider) fulfils with v.
OpSucceed(t, v) ==
  /\ IOReady
  /\ task[t].pc = "op"
  /\ v \in OpValues(t)
  /\ LET s == OnSuccess(currentIndex, failureCount) IN
       /\ currentIndex' = s.idx
       /\ failureCount' = s.fc
  /\ task' = [task EXCEPT ![t].pc = "returned",
                          ![t].out = [kind |-> "value", from |-> task[t].provider, val |-> v]]
  /\ hist' = HistStep(t, [hist[t] EXCEPT !.upstream = v])
  /\ lastResp' = NoValue
  /\ UNCHANGED <<started, faults, cacheVars, redisOn, registry,
                 recVars, wsVars, ccVars, proc>>

\* The awaited operation(provider) rejects with an error whose message is e.
OpFail(t, e) ==
  /\ IOReady
  /\ task[t].pc = "op"
  /\ e \in OpErrors(t)
  /\ LET s == OnFailure(currentIndex, failureCount) IN
       /\ currentIndex' = s.idx
       /\ failureCount' = s.fc
       /\ IF MoreAttempts(task[t].attempt, task[t].maxRetries)
          THEN task' = [task EXCEPT ![t].attempt = @ + 1,
                                    ![t].lastError = e,
                                    ![t].provider = Attempted(s.idx, s.fc)]
          ELSE task' = [task EXCEPT ![t].attempt = @ + 1,
                                    ![t].lastError = e,
                                    ![t].pc = "threw",
                                    ![t].out = AllProvidersFailed(task[t].maxRetries, e)]
  /\ hist' = HistStep(t, [hist[t] EXCEPT !.lastMsg = e,
                                        !.failed = @ + 1,
                                        !.invoked = IF task'[t].pc = "op" THEN @ + 1 ELSE @])
  /\ faults' = IF e \in ErrMsgs /\ task[t].kind # "exec" THEN faults - 1 ELSE faults
  /\ lastResp' = NoValue
  /\ UNCHANGED <<started, cacheVars, redisOn, registry,
                 recVars, wsVars, ccVars, proc>>

\* A direct caller has taken its result or its error; the slot is free again.
Finish(t) ==
  /\ task[t].kind = "exec"
  /\ task[t].pc \in {"returned", "threw"}
  /\ task' = [task EXCEPT ![t] = IdleTask]
  /\ hist' = [hist EXCEPT ![t] = NoHist]
  /\ lastResp' = NoValue
  /\ UNCHANGED <<pmVars, cacheVars, redisOn, registry, started, faults,
                 recVars, wsVars, ccVars, proc>>

\* ---------------------------------------------------------- CacheManager

\* The names that pass isValidENSName: /^[a-z0-9-]+\.eth$/
Names == {"alice.eth"}

\* Request parameters as they arrive.
RawNames == {"alice.eth", " Alice.ETH ", "alice"}

\* The addresses that pass isValidAddress (ethers.isAddress).
Addresses == {"0xabc"}

\* Address parameters as they arrive.
RawAddresses == {"0xabc", " 0xABC ", "0xzz"}

\* sanitizeInput: input.trim().toLowerCase()
sanitizeInput(raw) ==
  CASE raw = " Alice.ETH " -> "alice.eth"
    [] raw = " 0xABC " -> "0xabc"
    [] raw = " Al " -> "al"
    [] OTHER -> raw

\* isValidAddress(address)
isValidAddress(address) == address \in Addresses

\* isValidENSName(name)
isValidENSName(name) == name \in Names

\* What the chain holds for a name: no resolver (so no address either), a
\* resolver without an address, or a resolver with an address.
RegistryEntries ==
  {[resolver |-> FALSE, address |-> Null],
   [resolver |-> TRUE, address |-> Null],
   [resolver |-> TRUE, address |-> "0xA"]}

\* What the chain holds for a name in the avatar lookups: no resolver, a
\* resolver without an avatar, a resolver with an avatar.
AvatarEntries ==
  {[resolver |-> FALSE, address |-> Null, avatar |-> Null],
   [resolver |-> TRUE, address |-> "0xA", avatar |-> Null],
   [resolver |-> TRUE, address |-> "0xA", avatar |-> "ipfs://a"]}

\* What the chain holds for an address: no reverse record, or a name.
ReverseEntries == {[name |-> Null], [name |-> "alice.eth"]}

\* Mutant: the key is built without the endpoint's prefix.
CacheKeyBare(kind, name) == <<"", name>>

\* `resolve:${name}`, `reverse:${address}`, `avatar:${name}`,
\* `records:${name}`; the batch's branches use the single endpoints' keys.
CacheKey(kind, name) ==
  <<CASE kind = "batchResolve" -> "resolve"
      [] kind = "batchReverse" -> "reverse"
      [] OTHER -> kind,
    name>>

KeyOf(t) == CacheKey(task[t].kind, task[t].name)

\* Mutant: the write to the process-local tier is lost.
MemSetLost(mc, key, value) == mc

\* this.memoryCache.set(key, value): the entry lives until its TTL runs out.
MemSet(mc, key, value) == MapSet(mc, key, value)

\* this.memoryCache.del(key), and what the TTL does to an entry.
\* Mutant: a set whose Redis write failed is not counted.
SetCountedOnSuccess(st, ok) == IF ok THEN [st EXCEPT !.sets = @ + 1] ELSE st

\* this.stats.sets++ after the try/catch around the Redis write: the set is
\* counted whether the write succeeded (ok) or not.
SetCounted(st, ok) == [st EXCEPT !.sets = @ + 1]

MemDel(mc, key) == [k \in (DOMAIN mc) \ {key} |-> mc[k]]

\* JSON.stringify(value)
Serialize(value) == [json |-> value]

\* CONFIG.CACHE_TTL: the stdTTL of the memory tier, in seconds.
CacheTTL == 300

\* The ttl argument of cache.set: left out, or a number of seconds.
NoTTL == [given |-> FALSE]
Seconds(n) == [given |-> TRUE, seconds |-> n]

\* if (ttl) redisClient.setex(key, ttl, serialized) else
\* redisClient.set(key, serialized), as the server applies it: the key holds
\* the text, and expires after ttl seconds only when a ttl was given.
RedisWrite(rs, key, text, ttl) == MapSet(rs, key, [text |-> text, expiry |-> ttl])

\* Mutant: parsing gives nothing.
ParseNothing(text) == NoValue

\* JSON.parse(text)
Parse(text) == text.json

\* Mutant: with Redis configured, every get asks Redis.
GetSyncAsksRedis(key, st) ==
  IF redisOn
  THEN [pc |-> "redisGet", got |-> NoValue, stats |-> st, missed |-> FALSE]
  ELSE IF key \in DOMAIN memoryCache
       THEN [pc |-> "cacheGot", got |-> memoryCache[key],
             stats |-> [st EXCEPT !.hits = @ + 1], missed |-> FALSE]
       ELSE [pc |-> "cacheGot", got |-> NoValue,
             stats |-> [st EXCEPT !.misses = @ + 1], missed |-> TRUE]

\* The part of cache.get that runs before its first await: a value in the
\* memory tier is a hit; without Redis anything else is a miss; with Redis
\* the call goes on to ask Redis.
GetSync(key, st) ==
  IF key \in DOMAIN memoryCache
  THEN [pc |-> "cacheGot", got |-> memoryCache[key],
        stats |-> [st EXCEPT !.hits = @ + 1], missed |-> FALSE]
  ELSE IF redisOn
       THEN [pc |-> "redisGet", got |-> NoValue, stats |-> st, missed |-> FALSE]
       ELSE [pc |-> "cacheGot", got |-> NoValue,
             stats |-> [st EXCEPT !.misses = @ + 1], missed |-> TRUE]

\* --------------------------------------------------------------- handlers

LookupKinds ==
  {"resolve", "reverse", "avatar", "records", "batchResolve", "batchReverse"}
BatchKinds == {"batchResolve", "batchReverse"}

\* The check of the parameter each single endpoint makes, and the message of
\* the 400 error it throws.
ValidParam(kind, x) == IF kind = "reverse" THEN isValidAddress(x) ELSE isValidENSName(x)
InvalidParam(kind) ==
  IF kind = "reverse" THEN "Invalid Ethereum address" ELSE "Invalid ENS name format"

\* Mutant: undefined is passed on as it is.
OrNullRaw(v) == IF v = "" THEN Null ELSE v

\* v || null
OrNull(v) == IF v \in {Undefined, Null, ""} THEN Null ELSE v

\* Mutant: every answer is tagged as freshly computed.
OkUntagged(body, cached) ==
  [status |-> 200, error |-> NoError, cached |-> FALSE, body |-> body]

\* res.json({ ...value, cached })
Ok(body, cached) ==
  [status |-> 200, error |-> NoError, cached |-> cached, body |-> body]

\* errorHandler: the status is err.statusCode || 500, the message is the
\* error's own only when it is operational.
errorHandler(err) ==
  [status |-> IF err.statusCode # 0 THEN err.statusCode ELSE 500,
   error |-> IF err.isOperational THEN err.name ELSE "Internal server error",
   cached |-> FALSE, body |-> NoValue]

\* One entry of the batch response for a fulfilled sub-operation.
Fulfilled(value) ==
  [status |-> "fulfilled", error |-> NoError, cached |-> FALSE, body |-> value]

\* One entry of the batch response for a rejected sub-operation
\* (error: r.reason.message).
Rejected(err) ==
  [status |-> "rejected", error |-> err.name, cached |-> FALSE, body |-> NoValue]

\* The result object a handler builds from what executeWithFallback returned:
\* the single endpoints add a timestamp, the batch does not.
BuildResult(kind, name, v) ==
  CASE kind = "resolve" ->
         [kind |-> "result", name |-> name, address |-> v, timestamp |-> TRUE]
    [] kind = "batchResolve" ->
         [kind |-> "result", name |-> name, address |-> v, timestamp |-> FALSE]
    [] kind = "reverse" ->
         [kind |-> "result", address |-> name, name |-> OrNull(v), timestamp |-> TRUE]
    [] kind = "batchReverse" ->
         [kind |-> "result", address |-> name, name |-> v, timestamp |-> FALSE]
    [] kind = "avatar" ->
         [kind |-> "result", name |-> name, avatar |-> OrNull(v), timestamp |-> TRUE]
    [] OTHER ->
         [kind |-> "result", name |-> name, records |-> v, timestamp |-> TRUE]

\* What is left of a lookup's locals once executeWithFallback is behind it.
Settle(tk, pc, resp) ==
  [IdleTask EXCEPT !.pc = pc, !.kind = tk.kind, !.name = tk.name,
                   !.batch = tk.batch, !.index = tk.index, !.resp = resp]

\* A response as it leaves, with the history of the request it answers.
Response(kind, name, resp, h) ==
  [kind |-> kind, name |-> name, resp |-> resp, invoked |-> h.invoked,
   failed |-> h.failed, upstream |-> h.upstream, missed |-> h.missed,
   expired |-> h.expired, after |-> h.after, afterFresh |-> h.afterFresh,
   wrote |-> h.wrote]

\* A single resolve of name that starts now follows another immediately: the
\* step before sent a 200 answer to a single resolve of the same name, and
\* the entry that resolve left in the memory tier is within its TTL.
Follows(kind, name) ==
  /\ kind = "resolve"
  /\ InFlight = {}
  /\ lastResp # NoValue
  /\ IF lastResp = NoValue THEN FALSE
     ELSE /\ lastResp.kind = "resolve"
          /\ lastResp.name = name
          /\ lastResp.resp.status = 200
          /\ ~lastResp.expired

\* GET /resolve/:name, /reverse/:address, /avatar/:name and /records/:name,
\* up to the await of cache.get (the task's name holds the address for a
\* reverse lookup), while fewer than limit lookups are in flight:
\* the parameter is sanitized and validated (a malformed one is answered 400
\* at once), the cache key is built and cache.get runs to its first await.
RequestWithin(t, kind, raw, limit) ==
  /\ IOReady
  /\ FreeSlot(t)
  /\ Cardinality(InFlight) < limit
  /\ started < MaxRequests
  /\ started' = started + 1
  /\ LET name == sanitizeInput(raw)
         g == GetSync(CacheKey(kind, name), stats)
     IN IF ~ValidParam(kind, name)
        THEN /\ lastResp' = Response(kind, name,
                   errorHandler(createError(InvalidParam(kind), 400)), NoHist)
             /\ hist' = HistStep(t, NoHist)
             /\ UNCHANGED <<task, stats>>
        ELSE /\ task' = [task EXCEPT ![t] =
                  [IdleTask EXCEPT !.pc = g.pc, !.kind = kind, !.name = name,
                                   !.got = g.got]]
             /\ stats' = g.stats
             /\ hist' = HistStep(t,
                  [NoHist EXCEPT !.missed = g.missed,
                                 !.after = IF Follows(kind, name)
                                           THEN lastResp.resp.body.address ELSE NoError,
                                 !.afterFresh = IF Follows(kind, name)
                                                THEN lastResp.missed ELSE FALSE])
             /\ lastResp' = NoValue
  /\ UNCHANGED <<pmVars, memoryCache, redisStore, redisOn, registry, faults,
                 recVars, wsVars, ccVars, proc>>

\* The same, while fewer than MaxLookups lookups are in flight.
Request(t, kind, raw) == RequestWithin(t, kind, raw, MaxLookups)

\* The free slots, and the i-th of them.
FreeSlots == Tasks \ InFlight
NthFree(i) == CHOOSE s \in FreeSlots : Cardinality({u \in FreeSlots : u < s}) = i - 1

\* Names a batch entry may carry: the batch sanitizes but does not validate.
BatchRaws == {raw \in RawNames : isValidENSName(sanitizeInput(raw))}

\* Number of sub-operations of a batch in BatchSpec.
MaxBatch == 2

\* The entries of the operations array: a resolve, a reverse, or an entry of
\* another type.
ResolveOp(raw) == [type |-> "resolve", arg |-> raw]
ReverseOp(raw) == [type |-> "reverse", arg |-> raw]
OtherOp(raw) == [type |-> "transfer", arg |-> raw]

\* The branch of the map callback an entry takes.
SubKind(op) ==
  CASE op.type = "resolve" -> "batchResolve"
    [] op.type = "reverse" -> "batchReverse"
    [] OTHER -> "batchInvalid"

\* A sub-operation up to its first await: the resolve and reverse branches
\* sanitize the argument and run cache.get to its first await; any other
\* type throws, which rejects the sub-operation's promise at once.
SubStart(op, st) ==
  IF SubKind(op) = "batchInvalid"
  THEN [pc |-> "settled", got |-> NoValue, stats |-> st, missed |-> FALSE,
        resp |-> Rejected(PlainError("Invalid operation type"))]
  ELSE [r \in {"resp"} |-> NoValue] @@
       GetSync(CacheKey(SubKind(op), sanitizeInput(op.arg)), st)

\* The counters after the first i sub-operations of a batch have run to
\* their first await.
RECURSIVE StatsAfter(_, _)
StatsAfter(ops, i) ==
  IF i = 0 THEN stats
  ELSE SubStart(ops[i], StatsAfter(ops, i - 1)).stats

\* POST /batch with the operations ops[1..n], while at most limit lookups
\* are in flight: the array passes the size checks, and operations.map
\* starts every sub-operation in order, each running to its first await.
BatchStart(ops, limit) ==
  LET n == Len(ops) IN
  /\ IOReady
  /\ n >= 1
  /\ n <= Cardinality(FreeSlots)
  /\ Cardinality(InFlight) + n <= limit
  /\ \A t \in Tasks : task[t].batch = 0
  /\ started + n <= MaxRequests
  /\ started' = started + n
  /\ LET slots == {NthFree(i) : i \in 1 .. n}
         idx(s) == CHOOSE i \in 1 .. n : NthFree(i) = s
         sub(i) == SubStart(ops[i], stats)
     IN /\ task' = [s \in Tasks |->
              IF s \in slots
              THEN [IdleTask EXCEPT !.pc = sub(idx(s)).pc, !.kind = SubKind(ops[idx(s)]),
                                    !.name = sanitizeInput(ops[idx(s)].arg),
                                    !.batch = n, !.index = idx(s),
                                    !.got = sub(idx(s)).got,
                                    !.resp = sub(idx(s)).resp]
              ELSE task[s]]
        /\ hist' = [s \in Tasks |->
              IF s \in slots THEN [NoHist EXCEPT !.missed = sub(idx(s)).missed]
              ELSE Disturbed(hist[s])]
  /\ stats' = StatsAfter(ops, n)
  /\ lastResp' = NoValue
  /\ UNCHANGED <<pmVars, memoryCache, redisStore, redisOn, registry, faults,
                 recVars, wsVars, ccVars, proc>>

\* POST /batch with resolve operations for the names raws[1..n].
BatchRequest(raws) ==
  BatchStart([i \in DOMAIN raws |-> ResolveOp(raws[i])], MaxLookups)

\* Mutant: an error of redisClient.get leaves cache.get as a rejection.
RedisGetFailedThrows(tk) ==
  [tk EXCEPT !.pc = "threw", !.out = PlainError("Redis get error")]

\* cache.get after redisClient.get threw: the catch logs the error, and the
\* method goes on to return null.
RedisGetFailed(tk) == [tk EXCEPT !.pc = "cacheGot", !.got = NoValue]

\* cache.get resumes from redisClient.get: a stored value is parsed, put in
\* the memory tier and counted as a hit; no value, or an error (logged), is
\* a miss.
RedisGetReply(t, ok) ==
  /\ IOReady
  /\ task[t].pc = "redisGet"
  /\ IF ok /\ KeyOf(t) \in DOMAIN redisStore
     THEN LET parsed == Parse(redisStore[KeyOf(t)].text) IN
          /\ memoryCache' = MemSet(memoryCache, KeyOf(t), parsed)
          /\ stats' = [stats EXCEPT !.hits = @ + 1]
          /\ task' = [task EXCEPT ![t].pc = "cacheGot", ![t].got = parsed]
          /\ hist' = HistStep(t, [hist[t] EXCEPT !.expired = FALSE])
     ELSE /\ memoryCache' = memoryCache
          /\ stats' = [stats EXCEPT !.misses = @ + 1]
          /\ task' = [task EXCEPT ![t] =
                 IF ok THEN [@ EXCEPT !.pc = "cacheGot", !.got = NoValue]
                 ELSE RedisGetFailed(@)]
          /\ hist' = HistStep(t, [hist[t] EXCEPT !.missed = TRUE])
  /\ lastResp' = NoValue
  /\ UNCHANGED <<pmVars, redisStore, redisOn, registry, started, faults,
                 recVars, wsVars, ccVars, proc>>

\* The handler resumes from cache.get: a cached value is the answer, tagged
\* cached: true (a batch sub-operation returns it as it is); otherwise the
\* handler calls executeWithFallback with the default number of attempts.
AfterCacheGet(t) ==
  /\ task[t].pc = "cacheGot"
  /\ IF task[t].got # NoValue
     THEN IF task[t].kind \in BatchKinds
          THEN /\ task' = [task EXCEPT ![t] =
                    Settle(task[t], "settled", Fulfilled(task[t].got))]
               /\ hist' = HistStep(t, hist[t])
               /\ lastResp' = NoValue
          ELSE /\ task' = [task EXCEPT ![t] = IdleTask]
               /\ hist' = HistStep(t, NoHist)
               /\ lastResp' = Response(task[t].kind, task[t].name,
                                       Ok(task[t].got, TRUE), hist[t])
     ELSE /\ task' = [task EXCEPT ![t] = Entered(task[t], DefaultMaxRetries)]
          /\ hist' = HistEntered(t)
          /\ lastResp' = NoValue
  /\ UNCHANGED <<pmVars, cacheVars, redisOn, registry, started, faults,
                 recVars, wsVars, ccVars, proc>>

\* Mutant: a null address is answered like any other.
NotFoundNever(kind, val) == FALSE

\* if (!address) throw createError("ENS name not found", 404): the check the
\* single resolve makes on what executeWithFallback returned.
NotFound(kind, val) == kind = "resolve" /\ val = Null

\* The handler resumes from executeWithFallback.  An error goes to next(error)
\* (a batch sub-operation rejects).  The single resolve turns a null address
\* into a 404.  Otherwise the result object is built and cache.set runs to its
\* first await: the memory tier is written, and without Redis the set is
\* counted at once.
AfterExec(t) ==
  /\ task[t].kind \in LookupKinds
  /\ task[t].pc \in {"returned", "threw"}
  /\ IF task[t].pc = "threw"
     THEN /\ IF task[t].kind \in BatchKinds
             THEN /\ task' = [task EXCEPT ![t] =
                       Settle(task[t], "settled", Rejected(task[t].out))]
                  /\ hist' = HistStep(t, hist[t])
                  /\ lastResp' = NoValue
             ELSE /\ task' = [task EXCEPT ![t] = IdleTask]
                  /\ hist' = HistStep(t, NoHist)
                  /\ lastResp' = Response(task[t].kind, task[t].name,
                                          errorHandler(task[t].out), hist[t])
          /\ UNCHANGED cacheVars
     ELSE IF NotFound(task[t].kind, task[t].out.val)
     THEN /\ task' = [task EXCEPT ![t] = IdleTask]
          /\ hist' = HistStep(t, NoHist)
          /\ lastResp' = Response(task[t].kind, task[t].name,
                                  errorHandler(createError("ENS name not found", 404)),
                                  hist[t])
          /\ UNCHANGED cacheVars
     ELSE LET result == BuildResult(task[t].kind, task[t].name, task[t].out.val) IN
          /\ memoryCache' = MemSet(memoryCache, KeyOf(t), result)
          /\ stats' = IF redisOn THEN stats ELSE [stats EXCEPT !.sets = @ + 1]
          /\ task' = [task EXCEPT ![t] =
                 [Settle(task[t], IF redisOn THEN "redisSet" ELSE "cacheSet", NoValue)
                    EXCEPT !.result = result]]
          /\ hist' = HistStep(t, [Overlapped(hist[t]) EXCEPT
                                    !.expired = FALSE, !.wrote = <<KeyOf(t), result>>])
          /\ lastResp' = NoValue
          /\ redisStore' = redisStore
  /\ UNCHANGED <<pmVars, redisOn, registry, started, faults,
                 recVars, wsVars, ccVars, proc>>

\* cache.set resumes from redisClient.set (the handlers pass no ttl): the
\* value is stored, or the error is logged and swallowed; the set is counted
\* either way.
RedisSetReply(t, ok) ==
  /\ IOReady
  /\ task[t].pc = "redisSet"
  /\ redisStore' = IF ok THEN RedisWrite(redisStore, KeyOf(t),
                                           Serialize(task[t].result), NoTTL)
                   ELSE redisStore
  /\ stats' = SetCounted(stats, ok)
  /\ task' = [task EXCEPT ![t].pc = "cacheSet"]
  /\ hist' = HistStep(t, hist[t])
  /\ lastResp' = NoValue
  /\ UNCHANGED <<pmVars, memoryCache, redisOn, registry, started, faults,
                 recVars, wsVars, ccVars, proc>>

\* The handler resumes from cache.set and answers with the fresh result,
\* tagged cached: false (a batch sub-operation returns the result).
AfterCacheSet(t) ==
  /\ task[t].pc = "cacheSet"
  /\ IF task[t].kind \in BatchKinds
     THEN /\ task' = [task EXCEPT ![t] =
               Settle(task[t], "settled", Fulfilled(task[t].result))]
          /\ hist' = HistStep(t, hist[t])
          /\ lastResp' = NoValue
     ELSE /\ task' = [task EXCEPT ![t] = IdleTask]
          /\ hist' = HistStep(t, NoHist)
          /\ lastResp' = Response(task[t].kind, task[t].name,
                                  Ok(task[t].result, FALSE), hist[t])
  /\ UNCHANGED <<pmVars, cacheVars, redisOn, registry, started, faults,
                 recVars, wsVars, ccVars, proc>>

\* The sub-operation of the batch in flight that has index i.
\* Mutant: the results are read back in the opposite order.
SubTaskMirrored(i) ==
  CHOOSE t \in Tasks : task[t].batch # 0 /\ task[t].index = task[t].batch + 1 - i

SubTask(i) == CHOOSE t \in Tasks : task[t].batch # 0 /\ task[t].index = i

\* What sub-operation i of the batch in flight was asked and what happened to
\* it (history).
SubDone(i) ==
  LET t == CHOOSE u \in Tasks : task[u].batch # 0 /\ task[u].index = i IN
  [kind |-> task[t].kind, name |-> task[t].name, invoked |-> hist[t].invoked,
   failed |-> hist[t].failed, upstream |-> hist[t].upstream, missed |-> hist[t].missed]

\* Promise.allSettled resolves once every sub-operation of the batch has
\* settled; the response lists their entries by index, in request order.
\* (The response's name carries, as history, what each sub-operation was.)
BatchRespond(n) ==
  /\ \E t \in Tasks : task[t].batch = n /\ task[t].kind # "search"
  /\ \A t \in Tasks : task[t].batch # 0 => task[t].pc = "settled"
  /\ lastResp' = Response("batch", [i \in 1 .. n |-> SubDone(i)],
                          Ok([i \in 1 .. n |-> task[SubTask(i)].resp], FALSE), NoHist)
  /\ task' = [t \in Tasks |-> IF task[t].batch # 0 THEN IdleTask ELSE task[t]]
  /\ hist' = [t \in Tasks |-> IF task[t].batch # 0 THEN NoHist ELSE Disturbed(hist[t])]
  /\ UNCHANGED <<pmVars, cacheVars, redisOn, registry, started, faults,
                 recVars, wsVars, ccVars, proc>>

\* operations.length > 10
BatchLimit == 10

\* POST /batch with an operations array of n entries that fails the size
\* checks (none, or more than ten): a 400 error goes to the error handler
\* before any sub-operation is started.
BatchRefused(n) ==
  /\ IOReady
  /\ n = 0 \/ n > BatchLimit
  /\ lastResp' = Response("batch", <<>>,
                          errorHandler(createError(
                            IF n = 0 THEN "Invalid batch request format"
                            ELSE "Batch size limit exceeded (max 10)", 400)),
                          NoHist)
  /\ hist' = [t \in Tasks |-> Disturbed(hist[t])]
  /\ UNCHANGED <<pmVars, cacheVars, redisOn, registry, task, started, faults,
                 recVars, wsVars, ccVars, proc>>

\* -------------------------------------------------------------- the search

\* query.length < 3
MinQuery == 3

\* Number of searches that get as far as their lookups in one behaviour of
\* SearchSpec.
MaxSearches == 1

\* The query parameter as it arrives.
RawQueries == {"alice", " Al "}

\* const suggestions = [`${query}.eth`, `${query}-dao.eth`, `${query}-nft.eth`]
Suggestions(query) == <<query \o ".eth", query \o "-dao.eth", query \o "-nft.eth">>

\* JavaScript null, where the model holds a record.
NullObject == [kind |-> "null"]

\* Mutant: a candidate without an address is reported all the same.
CandidateAlways(name, out) ==
  IF out.kind = "value"
  THEN [name |-> name, address |-> out.val, available |-> FALSE]
  ELSE NullObject

\* What the promise of one candidate fulfils with: the entry when
\* executeWithFallback returned an address, null when it returned null or
\* threw (catch { return null }).
Candidate(name, out) ==
  IF out.kind = "value" /\ out.val # Null
  THEN [name |-> name, address |-> out.val, available |-> FALSE]
  ELSE NullObject

\* GET /search/:query, up to its first await: the query is sanitized; one
\* shorter than three characters is answered 400; otherwise suggestions.map
\* starts one lookup per candidate, in order, and each enters
\* executeWithFallback with the default number of attempts.
Search(raw) ==
  LET query == sanitizeInput(raw)
      names == Suggestions(query)
      n == Len(names)
  IN
  /\ IOReady
  /\ IF Len(query) < MinQuery
     THEN /\ lastResp' = Response("search", query,
                   errorHandler(createError("Query must be at least 3 characters", 400)),
                   NoHist)
          /\ hist' = [t \in Tasks |-> Disturbed(hist[t])]
          /\ UNCHANGED <<task, started>>
     ELSE /\ n <= Cardinality(FreeSlots)
          /\ \A t \in Tasks : task[t].batch = 0
          /\ started + n <= MaxSearches * n
          /\ started' = started + n
          /\ LET slots == {NthFree(i) : i \in 1 .. n}
                 idx(u) == CHOOSE i \in 1 .. n : NthFree(i) = u
             IN /\ task' = [u \in Tasks |->
                      IF u \in slots
                      THEN Entered([IdleTask EXCEPT !.kind = "search",
                                                    !.name = names[idx(u)],
                                                    !.batch = n, !.index = idx(u)],
                                   DefaultMaxRetries)
                      ELSE task[u]]
                /\ hist' = [u \in Tasks |->
                      IF u \in slots THEN [NoHist EXCEPT !.invoked = 1]
                      ELSE Disturbed(Overlapped(hist[u]))]
          /\ lastResp' = NoValue
  /\ UNCHANGED <<pmVars, cacheVars, redisOn, registry, faults,
                 recVars, wsVars, ccVars, proc>>

\* A candidate's lookup resumes from executeWithFallback and its promise
\* fulfils.
SearchSettle(t) ==
  /\ task[t].kind = "search"
  /\ task[t].pc \in {"returned", "threw"}
  /\ task' = [task EXCEPT ![t] =
         Settle(task[t], "settled", Fulfilled(Candidate(task[t].name, task[t].out)))]
  /\ hist' = HistStep(t, hist[t])
  /\ lastResp' = NoValue
  /\ UNCHANGED <<pmVars, cacheVars, redisOn, registry, started, faults,
                 recVars, wsVars, ccVars, proc>>

\* The entries of entries whose value is not null, in order
\* (results.filter(...).map((r) => r.value)).
RECURSIVE Found(_)
Found(entries) ==
  IF entries = <<>> THEN <<>>
  ELSE (IF Head(entries).body # NullObject THEN <<Head(entries).body>> ELSE <<>>)
       \o Found(Tail(entries))

\* Promise.allSettled resolves once every candidate has settled, and the
\* handler answers with the query, the suggestions and the candidates found.
\* (The response's name carries, as history, what each lookup was.)
SearchRespond ==
  /\ \E t \in Tasks : task[t].kind = "search"
  /\ \A t \in Tasks : task[t].batch # 0 => task[t].pc = "settled"
  /\ LET n == Cardinality({t \in Tasks : task[t].kind = "search"})
         names == [i \in 1 .. n |-> task[SubTask(i)].name]
     IN lastResp' = Response("search", [i \in 1 .. n |-> SubDone(i)],
                             Ok([suggestions |-> names,
                                 found |-> Found([i \in 1 .. n |-> task[SubTask(i)].resp])],
                                FALSE),
                             NoHist)
  /\ task' = [t \in Tasks |-> IF task[t].batch # 0 THEN IdleTask ELSE task[t]]
  /\ hist' = [t \in Tasks |-> IF task[t].batch # 0 THEN NoHist ELSE Disturbed(hist[t])]
  /\ UNCHANGED <<pmVars, cacheVars, redisOn, registry, started, faults,
                 recVars, wsVars, ccVars, proc>>

\* ------------------------------------------ direct calls of the CacheManager

\* Number of callers that may be inside a CacheManager method at once.
MaxCallers == 2

\* Number of CacheManager calls started in one behaviour of CacheSpec.
MaxCacheCalls == 3

Callers == 1 .. MaxCallers

\* The keys the direct callers use.
CacheKeys == {CacheKey("resolve", "alice.eth"), CacheKey("reverse", "0xabc")}

\* The substrings passed to invalidate.
Patterns == {"alice.eth", "e", "xyz"}

\* key.includes(pattern), for the key `${key[1]}:${key[2]}`; Redis matches
\* `*${pattern}*` the same way for these patterns.
Includes(key, pattern) ==
  CASE pattern = "e" -> TRUE
    [] pattern = "xyz" -> FALSE
    [] OTHER -> pattern \in {key[1] \o ":", key[2]}

\* The value a set stores: the calls started so far number the values, so a
\* greater version was written by a later set.
Versioned(n) == [kind |-> "result", version |-> n]

\* A caller outside the CacheManager.  (owed, intact: history, see below.)
IdleCall ==
  [pc |-> "idle", op |-> "none", key |-> <<>>, value |-> NoValue, ttl |-> NoTTL,
   pattern |-> "", keys |-> {}, failed |-> FALSE, owed |-> {}, intact |-> FALSE]

\* The memory tier's entries for the keys ks have been written or removed:
\* a set in flight on one of them no longer knows the entry is its own
\* (intact), and an invalidate in flight is no longer held to a key that a
\* set wrote after it started (owed).
TouchedBy(ks, written) ==
  [c \in Callers |->
     [cacheCall[c] EXCEPT !.intact = @ /\ cacheCall[c].key \notin ks,
                          !.owed = @ \ written]]

Touched(ks) == TouchedBy(ks, {})

\* Mutant: the error of a Redis command reaches the caller.
EscapesOnFailure(ok) == ~ok

\* try { ... } catch (error) { console.error(...) }: whether the error of a
\* Redis command leaves the method.  It is logged and goes no further.
Escapes(ok) == FALSE

\* What a call returns, with its history: the tier that served a get; for a
\* set, the value, and whether the entry it wrote is still its own; for an
\* invalidate, the keys it owes (present in a tier when it started and not
\* set since) and whether a Redis command of it failed.
Returned(call, ret, served) ==
  [op |-> call.op, key |-> call.key, pattern |-> call.pattern, ret |-> ret,
   served |-> served, value |-> call.value, intact |-> call.intact,
   owed |-> call.owed, failed |-> call.failed, threw |-> Escapes(~call.failed)]

\* The caller's command is the oldest one Redis has not answered: one
\* connection carries the commands, and the replies come in their order.
Oldest(c) == redisQueue # <<>> /\ Head(redisQueue) = c

\* The variables the CacheManager's methods leave alone.
outsideCache ==
  <<pmVars, redisOn, registry, task, faults, hist, lastResp, recVars, wsVars, proc>>

\* The caller that makes the next call: the first one outside the
\* CacheManager.
FreeCaller(c) ==
  /\ cacheCall[c].pc = "idle"
  /\ \A d \in Callers : d < c => cacheCall[d].pc # "idle"

\* cache.get(key), up to its first await: a value in the memory tier is
\* returned and counted as a hit; without Redis anything else is a miss.
CacheGet(c, key) ==
  /\ FreeCaller(c)
  /\ started < MaxCacheCalls
  /\ started' = started + 1
  /\ LET g == GetSync(key, stats)
         call == [IdleCall EXCEPT !.op = "get", !.key = key]
     IN /\ stats' = g.stats
        /\ IF g.pc = "redisGet"
           THEN /\ cacheCall' = [cacheCall EXCEPT ![c] = [call EXCEPT !.pc = "redisGet"]]
                /\ redisQueue' = Append(redisQueue, c)
                /\ lastRet' = NoValue
           ELSE /\ lastRet' = Returned(call, IF g.missed THEN Null ELSE g.got,
                                       IF g.missed THEN "none" ELSE "memory")
                /\ UNCHANGED <<cacheCall, redisQueue>>
  /\ UNCHANGED <<outsideCache, memoryCache, redisStore>>

\* cache.get resumes from redisClient.get: a stored value is parsed, put in
\* the memory tier, counted as a hit and returned; no value, or an error
\* (logged), is a miss.
CacheGetReply(c, ok) ==
  /\ cacheCall[c].pc = "redisGet"
  /\ Oldest(c)
  /\ redisQueue' = Tail(redisQueue)
  /\ LET key == cacheCall[c].key IN
     IF ok /\ key \in DOMAIN redisStore
     THEN LET parsed == Parse(redisStore[key].text) IN
          /\ memoryCache' = MemSet(memoryCache, key, parsed)
          /\ stats' = [stats EXCEPT !.hits = @ + 1]
          /\ cacheCall' = [Touched({key}) EXCEPT ![c] = IdleCall]
          /\ lastRet' = Returned(cacheCall[c], parsed, "redis")
     ELSE /\ memoryCache' = memoryCache
          /\ stats' = [stats EXCEPT !.misses = @ + 1]
          /\ cacheCall' = [cacheCall EXCEPT ![c] = IdleCall]
          /\ lastRet' = Returned(cacheCall[c], Null, "none")
  /\ UNCHANGED <<outsideCache, redisStore, started>>

\* cache.set(key, value, ttl), up to its first await: the memory tier is
\* written (with the ttl, or stdTTL when there is none); without Redis the
\* set is counted and returns.
CacheSet(c, key, ttl) ==
  /\ FreeCaller(c)
  /\ started < MaxCacheCalls
  /\ started' = started + 1
  /\ LET call == [IdleCall EXCEPT !.op = "set", !.key = key, !.ttl = ttl,
                                  !.value = Versioned(started + 1), !.intact = TRUE]
     IN /\ memoryCache' = MemSet(memoryCache, key, call.value)
        /\ IF redisOn
           THEN /\ cacheCall' = [TouchedBy({key}, {key}) EXCEPT
                                   ![c] = [call EXCEPT !.pc = "redisSet"]]
                /\ redisQueue' = Append(redisQueue, c)
                /\ stats' = stats
                /\ lastRet' = NoValue
           ELSE /\ cacheCall' = TouchedBy({key}, {key})
                /\ redisQueue' = redisQueue
                /\ stats' = [stats EXCEPT !.sets = @ + 1]
                /\ lastRet' = Returned(call, "void", "none")
  /\ UNCHANGED <<outsideCache, redisStore>>

\* cache.set resumes from redisClient.setex or redisClient.set: the value is
\* stored, or the error is logged and swallowed; the set is counted and
\* returns either way.
CacheSetReply(c, ok) ==
  /\ cacheCall[c].pc = "redisSet"
  /\ Oldest(c)
  /\ redisQueue' = Tail(redisQueue)
  /\ redisStore' = IF ok THEN RedisWrite(redisStore, cacheCall[c].key,
                                           Serialize(cacheCall[c].value), cacheCall[c].ttl)
                   ELSE redisStore
  /\ stats' = SetCounted(stats, ok)
  /\ cacheCall' = [cacheCall EXCEPT ![c] = IdleCall]
  /\ lastRet' = Returned([cacheCall[c] EXCEPT !.failed = ~ok], "void", "none")
  /\ UNCHANGED <<outsideCache, memoryCache, started>>

\* The keys of the memory tier, and of Redis, that contain the pattern.
MemoryMatches(pattern) == {k \in DOMAIN memoryCache : Includes(k, pattern)}
RedisMatches(pattern) == {k \in DOMAIN redisStore : Includes(k, pattern)}

\* The store without the keys ks.
Without(store, ks) == [k \in (DOMAIN store) \ ks |-> store[k]]

\* cache.invalidate(pattern), up to its first await: every key of the memory
\* tier that contains the pattern is deleted; without Redis that is all.
CacheInvalidate(c, pattern) ==
  /\ FreeCaller(c)
  /\ started < MaxCacheCalls
  /\ started' = started + 1
  /\ LET gone == MemoryMatches(pattern)
         call == [IdleCall EXCEPT !.op = "invalidate", !.pattern = pattern,
                                  !.owed = gone \cup (IF redisOn THEN RedisMatches(pattern)
                                                      ELSE {})]
     IN /\ memoryCache' = Without(memoryCache, gone)
        /\ IF redisOn
           THEN /\ cacheCall' = [Touched(gone) EXCEPT ![c] = [call EXCEPT !.pc = "redisKeys"]]
                /\ redisQueue' = Append(redisQueue, c)
                /\ lastRet' = NoValue
           ELSE /\ cacheCall' = Touched(gone)
                /\ redisQueue' = redisQueue
                /\ lastRet' = Returned(call, "void", "none")
  /\ UNCHANGED <<outsideCache, redisStore, stats>>

\* cache.invalidate resumes from redisClient.keys: the keys found are handed
\* to redisClient.del; with none found, or on an error (logged), it returns.
CacheKeysReply(c, ok) ==
  /\ cacheCall[c].pc = "redisKeys"
  /\ Oldest(c)
  /\ LET found == RedisMatches(cacheCall[c].pattern) IN
     IF ok /\ found # {}
     THEN /\ cacheCall' = [cacheCall EXCEPT ![c].pc = "redisDel", ![c].keys = found]
          /\ redisQueue' = Append(Tail(redisQueue), c)
          /\ lastRet' = NoValue
     ELSE /\ cacheCall' = [cacheCall EXCEPT ![c] = IdleCall]
          /\ redisQueue' = Tail(redisQueue)
          /\ lastRet' = Returned([cacheCall[c] EXCEPT !.failed = ~ok], "void", "none")
  /\ UNCHANGED <<outsideCache, cacheVars, started>>

\* cache.invalidate resumes from redisClient.del: the keys are gone from
\* Redis, or the error is logged; it returns either way.
CacheDelReply(c, ok) ==
  /\ cacheCall[c].pc = "redisDel"
  /\ Oldest(c)
  /\ redisQueue' = Tail(redisQueue)
  /\ redisStore' = IF ok THEN Without(redisStore, cacheCall[c].keys) ELSE redisStore
  /\ cacheCall' = [cacheCall EXCEPT ![c] = IdleCall]
  /\ lastRet' = Returned([cacheCall[c] EXCEPT !.failed = ~ok], "void", "none")
  /\ UNCHANGED <<outsideCache, memoryCache, stats, started>>

\* The expiry of a Redis key runs out; a key without expiry stays.
ExpireRedis(key) ==
  /\ key \in DOMAIN redisStore
  /\ redisStore[key].expiry.given
  /\ redisStore' = Without(redisStore, {key})
  /\ lastRet' = NoValue
  /\ UNCHANGED <<outsideCache, memoryCache, stats, started, cacheCall, redisQueue>>

\* The TTL of a memory-tier entry runs out (stdTTL, checked every
\* CACHE_CHECK_PERIOD and on access).
ExpireMemory(key) ==
  /\ IOReady
  /\ key \in DOMAIN memoryCache
  /\ memoryCache' = MemDel(memoryCache, key)
  /\ hist' = [t \in Tasks |->
       IF t \in InFlight /\ KeyOf(t) = key
       THEN [Disturbed(hist[t]) EXCEPT !.expired = TRUE]
       ELSE Disturbed(hist[t])]
  /\ lastResp' = NoValue
  /\ cacheCall' = Touched({key})
  /\ lastRet' = NoValue
  /\ UNCHANGED <<pmVars, redisStore, stats, redisOn, registry, task, started, faults,
                 recVars, wsVars, redisQueue, proc>>

\* ------------------------------------------------------- WebSocket server

\* CONFIG.WS_MAX_CLIENTS, scaled down from 1000.
WsMaxClients == 2

\* Number of connections that arrive in one behaviour.
MaxConns == 3

\* connectedClients, in insertion order (the order forEach visits).  clients
\* holds every connection that has arrived, in order of arrival.
Connected == {c \in DOMAIN clients : clients[c].inSet}

\* Mutant: one connection too many is let in.
AtCapacityOffByOne(size) == size > WsMaxClients

\* connectedClients.size >= CONFIG.WS_MAX_CLIENTS
AtCapacity(size) == size >= WsMaxClients

\* A connection turned away: ws.close(1008, ...) and return, before any
\* handler, timer or message.
TurnedAway ==
  [state |-> "closing", code |-> 1008, inSet |-> FALSE, isAlive |-> FALSE,
   timer |-> FALSE, probe |-> "none", welcome |-> FALSE, byHeartbeat |-> FALSE]

\* A connection let in: added to the set, sent the welcome payload, isAlive
\* true, heartbeat timer running, handlers registered.
LetIn ==
  [state |-> "open", code |-> 0, inSet |-> TRUE, isAlive |-> TRUE,
   timer |-> TRUE, probe |-> "none", welcome |-> TRUE, byHeartbeat |-> FALSE]

\* The variables the WebSocket server leaves alone.
restVars ==
  <<pmVars, cacheVars, redisOn, registry, task, started, faults, hist, lastResp,
    recVars, ccVars, proc>>

\* The listener after a step that is not a block event: what the last block
\* event did is forgotten.
Silent == [notifier EXCEPT !.offered = {}, !.failed = {}, !.delivered = {}]

\* wss.on("connection")
Connect ==
  /\ Len(clients) < MaxConns
  /\ clients' = Append(clients,
                       IF AtCapacity(Cardinality(Connected)) THEN TurnedAway ELSE LetIn)
  /\ notifier' = Silent
  /\ UNCHANGED restVars

\* ws.on("pong"): the peer answers the probe, and none is outstanding.
Pong(c) ==
  /\ c \in DOMAIN clients
  /\ clients[c].state = "open"
  /\ clients[c].probe = "sent"
  /\ clients' = [clients EXCEPT ![c].isAlive = TRUE, ![c].probe = "none"]
  /\ notifier' = Silent
  /\ UNCHANGED restVars

\* Mutant: the heartbeat never finds a probe unanswered.
HeartbeatNeverMissed(isAlive) == FALSE

\* if (!isAlive)
HeartbeatMissed(isAlive) == ~isAlive

\* The heartbeat interval fires for connection c: an unanswered probe stops
\* the timer and terminates the connection (readyState becomes CLOSING at
\* once, the close event comes later); otherwise isAlive is cleared and a new
\* probe is sent (it reaches only a peer whose connection is open).
Tick(c) ==
  /\ c \in DOMAIN clients
  /\ clients[c].timer
  /\ clients' =
       IF HeartbeatMissed(clients[c].isAlive)
       THEN [clients EXCEPT ![c].timer = FALSE,
                            ![c].state = "closing",
                            ![c].byHeartbeat = TRUE]
       ELSE [clients EXCEPT ![c].isAlive = FALSE,
                            ![c].probe = IF clients[c].state = "open" THEN "sent" ELSE @]
  /\ notifier' = Silent
  /\ UNCHANGED restVars

\* The peer closes the connection, or the connection is lost.
PeerCloses(c) ==
  /\ c \in DOMAIN clients
  /\ clients[c].state = "open"
  /\ clients' = [clients EXCEPT ![c].state = "closing"]
  /\ notifier' = Silent
  /\ UNCHANGED restVars

\* The close event of connection c: ws.on("close") stops the timer and
\* deletes the connection from the set (a connection turned away has no
\* handler).
CloseEvent(c) ==
  /\ c \in DOMAIN clients
  /\ clients[c].state = "closing"
  /\ clients' = [clients EXCEPT ![c].state = "closed", ![c].timer = FALSE,
                                ![c].inSet = FALSE]
  /\ notifier' = Silent
  /\ UNCHANGED restVars

\* Mutant: a send that fails ends the loop.
RECURSIVE BroadcastStopsAtFailure(_, _, _)
BroadcastStopsAtFailure(i, failing, done) ==
  IF i > Len(clients) THEN done
  ELSE IF clients[i].inSet /\ clients[i].state = "open"
       THEN IF i \in failing
            THEN [done EXCEPT !.offered = @ \cup {i}]
            ELSE BroadcastStopsAtFailure(i + 1, failing,
                   [done EXCEPT !.offered = @ \cup {i}, !.delivered = @ \cup {i}])
       ELSE BroadcastStopsAtFailure(i + 1, failing, done)

\* connectedClients.forEach from the i-th connection on: client.send(message)
\* for every connection of the set whose readyState is OPEN.  A send that
\* fails (the connections of failing) does not deliver; ws reports it on the
\* connection's error event, which ws.on("error") logs, and the loop goes on.
\* done holds the connections send was called on and those it reached.
RECURSIVE Broadcast(_, _, _)
Broadcast(i, failing, done) ==
  IF i > Len(clients) THEN done
  ELSE IF clients[i].inSet /\ clients[i].state = "open"
       THEN Broadcast(i + 1, failing,
                      [done EXCEPT !.offered = @ \cup {i},
                                   !.delivered = IF i \in failing THEN @ ELSE @ \cup {i}])
       ELSE Broadcast(i + 1, failing, done)

\* provider.on("block"): the endpoint the listener is attached to reports a
\* new block (its number is kept modulo 2), and the payload is sent to the
\* connections.  The listener was attached once, when the module loaded, to
\* the endpoint getProvider() returned then; no code attaches it again.
Block(failing) ==
  /\ failing \subseteq {c \in Connected : clients[c].state = "open"}
  /\ LET done == Broadcast(1, failing, [offered |-> {}, delivered |-> {}]) IN
       notifier' = [notifier EXCEPT !.blockNumber = (@ + 1) % 2,
                                    !.offered = done.offered,
                                    !.failed = failing,
                                    !.delivered = done.delivered]
  /\ UNCHANGED <<restVars, clients>>

\* ------------------------------------------------------- cache statistics

\* Number of cache.get calls counted in one behaviour of StatsSpec.
MaxGets == 10

\* Mutant: the rate is taken over the misses.
MissRatePoints(hits, misses) ==
  (2 * 10000 * misses + (hits + misses)) \div (2 * (hits + misses))

\* (hits / (hits + misses)) * 100, in hundredths, rounded to the nearest as
\* toFixed(2) rounds.  (No count within reach of the model puts the quotient
\* half way between two hundredths, where the binary fraction would decide.)
HitRatePoints(hits, misses) ==
  (2 * 10000 * hits + (hits + misses)) \div (2 * (hits + misses))

\* Number.prototype.toFixed(2), from the hundredths: the integer part, a dot
\* and two decimals.
toFixed2(points) ==
  ToString(points \div 100) \o "." \o ToString((points % 100) \div 10)
                            \o ToString(points % 10)

\* CacheManager.getStats()
getStats ==
  [hits |-> stats.hits, misses |-> stats.misses, sets |-> stats.sets,
   hitRate |-> (IF stats.hits + stats.misses > 0
                THEN toFixed2(HitRatePoints(stats.hits, stats.misses))
                ELSE "0.00") \o "%",
   memoryKeys |-> Cardinality(DOMAIN memoryCache)]

\* A cache.get call runs and counts itself as a hit or as a miss.
CacheGetCounted(hit) ==
  /\ stats.hits + stats.misses < MaxGets
  /\ stats' = IF hit THEN [stats EXCEPT !.hits = @ + 1]
              ELSE [stats EXCEPT !.misses = @ + 1]
  /\ lastResp' = NoValue
  /\ UNCHANGED <<pmVars, memoryCache, redisStore, redisOn, registry, task, started,
                 faults, hist, recVars, wsVars, ccVars, proc>>

\* GET /stats answers with the cache statistics (among others).
StatsRequest ==
  /\ lastResp' = Response("stats", Null, Ok(getStats, FALSE), NoHist)
  /\ UNCHANGED <<pmVars, cacheVars, redisOn, registry, task, started, faults, hist,
                 recVars, wsVars, ccVars, proc>>

\* ProviderManager.getStats()
providerGetStats ==
  [totalProviders |-> NumProviders, currentProvider |-> currentIndex,
   failures |-> failureCount]

\* Mutant: a failed health probe counts against the endpoint and moves the
\* cursor, as a failed attempt of executeWithFallback does.
HealthProbeCounted(ok) ==
  IF ok THEN [idx |-> currentIndex, fc |-> failureCount]
  ELSE OnFailure(currentIndex, failureCount)

\* The cursor and the counters after the health probe: getProvider() reads
\* the cursor, and the handler calls the endpoint itself, outside
\* executeWithFallback, whether the probe fails or not.
HealthProbe(ok) == [idx |-> currentIndex, fc |-> failureCount]

\* GET /health, taken at the point where it answers: getProvider() returned
\* the endpoint under the cursor and provider.getBlockNumber() and
\* getNetwork() were awaited on it.  When both fulfilled the answer is 200
\* with the statistics of the cache and of the provider manager; when one
\* rejected the catch answers 503 with the error's message.
Health(ok) ==
  /\ currentIndex' = HealthProbe(ok).idx
  /\ failureCount' = HealthProbe(ok).fc
  /\ lastResp' = Response("health", Null,
                          IF ok
                          THEN Ok([cache |-> getStats, provider |-> providerGetStats], FALSE)
                          ELSE [status |-> 503, error |-> "timeout", cached |-> FALSE,
                                body |-> NoValue],
                          NoHist)
  /\ UNCHANGED <<cacheVars, redisOn, registry, task, started, faults, hist,
                 recVars, wsVars, ccVars, proc>>

\* ------------------------------------------- the records operation's body

\* Number of text fields the resolver lacks, holds empty or fails to read.
MaxUnset == 2

\* const keys = [...]
TextKeys ==
  <<"email", "url", "avatar", "description", "com.twitter", "com.github",
    "com.discord", "com.telegram">>

\* The value of a text field that is set.
TextOf(key) == "text of " \o key

\* What resolver.getText(key) does: it fulfils with null (no such record),
\* with the empty string or with the text, or it rejects.
TextOutcomes(key) == {Null, "", TextOf(key), "throws"}

\* Mutant: the entry carries whatever getText produced.
TextEntryRaw(key, outcome) == <<key, outcome>>

\* One recordPromise: [key, value || null], and [key, null] when getText
\* rejects.
TextEntry(key, outcome) ==
  IF outcome = "throws" THEN <<key, Null>>
  ELSE <<key, IF outcome = "" THEN Null ELSE outcome>>

\* Object.fromEntries(recordEntries)
FromEntries(entries) ==
  [k \in {entries[i][1] : i \in DOMAIN entries} |->
     entries[CHOOSE i \in DOMAIN entries : entries[i][1] = k][2]]

\* The operation has its resolver: keys.map starts one getText per key, in
\* the order of keys, and every recordPromise is pending.
RecordsStart ==
  /\ recordEntries = <<>>
  /\ records = NoValue
  /\ recordEntries' = [i \in DOMAIN TextKeys |-> "pending"]
  /\ UNCHANGED <<pmVars, cacheVars, redisOn, registry, task, started, faults, hist,
                 lastResp, resolverTexts, records, wsVars, ccVars, proc>>

\* resolver.getText(keys[i]) settles and the recordPromise of keys[i] fulfils
\* with its entry.
GetTextReply(i) ==
  /\ i \in DOMAIN recordEntries
  /\ recordEntries[i] = "pending"
  /\ recordEntries' = [recordEntries EXCEPT ![i] = TextEntry(TextKeys[i], resolverTexts[i])]
  /\ UNCHANGED <<pmVars, cacheVars, redisOn, registry, task, started, faults, hist,
                 lastResp, resolverTexts, records, wsVars, ccVars, proc>>

\* Promise.all(recordPromises) fulfils once every recordPromise has, and the
\* operation returns the object built from the entries.
RecordsReturn ==
  /\ recordEntries # <<>>
  /\ records = NoValue
  /\ \A i \in DOMAIN recordEntries : recordEntries[i] # "pending"
  /\ records' = FromEntries(recordEntries)
  /\ UNCHANGED <<pmVars, cacheVars, redisOn, registry, task, started, faults, hist,
                 lastResp, resolverTexts, recordEntries, wsVars, ccVars, proc>>

\* ------------------------------------------------------------ the process

\* Number of top-level events (uncaught errors, signals) in one behaviour.
MaxErrors == 4

\* The process once the module has loaded: both servers listen, the cache is
\* open, no shutdown is under way.  quits counts the shutdowns awaiting
\* redisClient.quit(), timers the exit timers set; event is the top-level
\* event the step just taken handled and logged whether it logged an error.
Listening ==
  [alive |-> TRUE, listening |-> TRUE, wsListening |-> TRUE, cacheOpen |-> TRUE,
   quits |-> 0, timers |-> 0, events |-> 0, event |-> "none", logged |-> FALSE]

\* The variables the process events leave alone.
outsideProcess ==
  <<pmVars, cacheVars, redisOn, registry, task, started, faults, hist, lastResp,
    recVars, wsVars, ccVars>>

\* gracefulShutdown(signal), up to where it is suspended: server.close(),
\* wss.close(), and cache.close(), which closes the memory tier and, with
\* Redis, awaits redisClient.quit(); without Redis the function goes on at
\* once to set the timer that exits the process.
gracefulShutdown(p) ==
  [p EXCEPT !.listening = FALSE, !.wsListening = FALSE, !.cacheOpen = FALSE,
            !.quits = IF redisOn THEN @ + 1 ELSE @,
            !.timers = IF redisOn THEN @ ELSE @ + 1]

\* One more top-level event has been handled.
Handled(p, event, logged) ==
  [p EXCEPT !.events = @ + 1, !.event = event, !.logged = logged]

\* process.on("uncaughtException"): the error is logged and gracefulShutdown
\* is called.
UncaughtException ==
  /\ proc.alive
  /\ proc.events < MaxErrors
  /\ proc' = Handled(gracefulShutdown(proc), "uncaughtException", TRUE)
  /\ UNCHANGED outsideProcess

\* process.on("unhandledRejection"): the promise and the reason are logged.
UnhandledRejection ==
  /\ proc.alive
  /\ proc.events < MaxErrors
  /\ proc' = Handled(proc, "unhandledRejection", TRUE)
  /\ UNCHANGED outsideProcess

\* process.on("SIGTERM") and process.on("SIGINT"): gracefulShutdown is called.
Signal(signal) ==
  /\ proc.alive
  /\ proc.events < MaxErrors
  /\ proc' = Handled(gracefulShutdown(proc), signal, FALSE)
  /\ UNCHANGED outsideProcess

\* redisClient.quit() settles for a shutdown that awaits it.  Fulfilled, the
\* shutdown sets its exit timer.  Rejected, cache.close() and with it
\* gracefulShutdown reject; no caller handles that promise, so the
\* unhandledRejection handler logs it, and this shutdown sets no timer.
QuitReply(ok) ==
  /\ proc.alive
  /\ proc.quits > 0
  /\ proc' = IF ok
             THEN [proc EXCEPT !.quits = @ - 1, !.timers = @ + 1,
                               !.event = "none", !.logged = FALSE]
             ELSE [proc EXCEPT !.quits = @ - 1,
                               !.event = "unhandledRejection", !.logged = TRUE]
  /\ UNCHANGED outsideProcess

\* An exit timer fires, five seconds after it was set: process.exit(0).
ExitTimer ==
  /\ proc.alive
  /\ proc.timers > 0
  /\ proc' = [proc EXCEPT !.alive = FALSE, !.event = "exit", !.logged = FALSE]
  /\ UNCHANGED outsideProcess

\* --------------------------------------------------------- specifications

\* The state after the module has loaded: cursor 0, no counters, empty
\* caches, no request.
Loaded ==
  /\ currentIndex = 0
  /\ failureCount = <<>>
  /\ memoryCache = <<>>
  /\ redisStore = <<>>
  /\ stats = [hits |-> 0, misses |-> 0, sets |-> 0]
  /\ task = [t \in Tasks |-> IdleTask]
  /\ started = 0
  /\ hist = [t \in Tasks |-> NoHist]
  /\ lastResp = NoValue

\* The records operation is not running; the resolver holds every text field.
RecordsIdle ==
  /\ resolverTexts = [i \in DOMAIN TextKeys |-> TextOf(TextKeys[i])]
  /\ recordEntries = <<>>
  /\ records = NoValue

\* No WebSocket connection has arrived; the block listener is on the endpoint
\* getProvider() returned when the module loaded.  Nothing calls the
\* CacheManager directly.
WsLoaded ==
  /\ cacheCall = [c \in Callers |-> IdleCall]
  /\ redisQueue = <<>>
  /\ lastRet = NoValue
  /\ clients = <<>>
  /\ notifier = [source |-> currentIndex, blockNumber |-> 0,
                 offered |-> {}, failed |-> {}, delivered |-> {}]
  /\ proc = Listening

Init ==
  /\ Loaded
  /\ faults = MaxFaults
  /\ RecordsIdle
  /\ WsLoaded
  /\ redisOn = FALSE
  /\ registry = [n \in Names |-> [resolver |-> TRUE, address |-> "0xA"]]

Next ==
  \/ \E t \in Tasks : Call(t, DefaultMaxRetries)
  \/ \E t \in Tasks : \E v \in OpValues(t) : OpSucceed(t, v)
  \/ \E t \in Tasks : \E e \in OpErrors(t) : OpFail(t, e)
  \/ \E t \in Tasks : Finish(t)

\* Direct callers of executeWithFallback.
Spec == Init /\ [][Next]_vars

\* Redis is configured or not (USE_REDIS, REDIS_URL); the chain holds any
\* entry for each name.
LookupInit ==
  /\ Loaded
  /\ faults = MaxFaults
  /\ RecordsIdle
  /\ WsLoaded
  /\ redisOn \in BOOLEAN
  /\ registry \in [Names -> RegistryEntries]

LookupNext ==
  \/ \E t \in Tasks, kind \in {"resolve", "records"}, raw \in RawNames : Request(t, kind, raw)
  \/ \E n \in 1 .. MaxLookups : \E raws \in [1 .. n -> BatchRaws] : BatchRequest(raws)
  \/ \E t \in Tasks, ok \in BOOLEAN : RedisGetReply(t, ok)
  \/ \E t \in Tasks : AfterCacheGet(t)
  \/ \E t \in Tasks : \E v \in OpValues(t) : OpSucceed(t, v)
  \/ \E t \in Tasks : \E e \in OpErrors(t) : OpFail(t, e)
  \/ \E t \in Tasks : AfterExec(t)
  \/ \E t \in Tasks, ok \in BOOLEAN : RedisSetReply(t, ok)
  \/ \E t \in Tasks : AfterCacheSet(t)
  \/ \E n \in 1 .. MaxLookups : BatchRespond(n)
  \/ \E key \in DOMAIN memoryCache : ExpireMemory(key)

\* The HTTP handlers over the cache and the provider manager.
LookupSpec == LookupInit /\ [][LookupNext]_vars

\* The resolver holds the text of every key but at most MaxUnset of them.
RecordsInit ==
  /\ Loaded
  /\ faults = MaxFaults
  /\ WsLoaded
  /\ redisOn = FALSE
  /\ registry = [n \in Names |-> [resolver |-> TRUE, address |-> "0xA"]]
  /\ \E unset \in {u \in SUBSET (DOMAIN TextKeys) : Cardinality(u) <= MaxUnset} :
       \E g \in [unset -> {Null, "", "throws"}] :
         /\ \A i \in unset : g[i] \in TextOutcomes(TextKeys[i])
         /\ resolverTexts = [i \in DOMAIN TextKeys |->
                               IF i \in unset THEN g[i] ELSE TextOf(TextKeys[i])]
  /\ recordEntries = <<>>
  /\ records = NoValue

RecordsNext ==
  \/ RecordsStart
  \/ \E i \in DOMAIN TextKeys : GetTextReply(i)
  \/ RecordsReturn

\* The body of the operation GET /records/:name passes to executeWithFallback,
\* for a name that has a resolver.
RecordsSpec == RecordsInit /\ [][RecordsNext]_vars

\* The chain holds any avatar entry for each name and any reverse entry for
\* each address.
ReverseAvatarInit ==
  /\ Loaded
  /\ faults = MaxFaults
  /\ RecordsIdle
  /\ WsLoaded
  /\ redisOn \in BOOLEAN
  /\ \E byName \in [Names -> AvatarEntries], byAddress \in [Addresses -> ReverseEntries] :
       registry = [x \in Names \cup Addresses |->
                     IF x \in Names THEN byName[x] ELSE byAddress[x]]

ReverseAvatarNext ==
  \/ \E t \in Tasks, raw \in RawAddresses : Request(t, "reverse", raw)
  \/ \E t \in Tasks, raw \in RawNames : Request(t, "avatar", raw)
  \/ \E t \in Tasks, ok \in BOOLEAN : RedisGetReply(t, ok)
  \/ \E t \in Tasks : AfterCacheGet(t)
  \/ \E t \in Tasks : \E v \in OpValues(t) : OpSucceed(t, v)
  \/ \E t \in Tasks : \E e \in OpErrors(t) : OpFail(t, e)
  \/ \E t \in Tasks : AfterExec(t)
  \/ \E t \in Tasks, ok \in BOOLEAN : RedisSetReply(t, ok)
  \/ \E t \in Tasks : AfterCacheSet(t)
  \/ \E key \in DOMAIN memoryCache : ExpireMemory(key)

\* The reverse and avatar handlers over the cache and the provider manager.
ReverseAvatarSpec == ReverseAvatarInit /\ [][ReverseAvatarNext]_vars

\* The operations a batch of BatchSpec may carry.
BatchOps == {ResolveOp("alice.eth"), ReverseOp(" 0xABC "), OtherOp("alice.eth")}

\* Redis is not configured; the name has an address or not, the address has a
\* reverse record or not; upstream may fail often enough to exhaust one
\* sub-operation.
BatchInit ==
  /\ Loaded
  /\ RecordsIdle
  /\ WsLoaded
  /\ faults = DefaultMaxRetries + MaxFaults - 1
  /\ redisOn = FALSE
  /\ \E byName \in [Names -> RegistryEntries \ {[resolver |-> FALSE, address |-> Null]}],
        byAddress \in [Addresses -> ReverseEntries] :
       registry = [x \in Names \cup Addresses |->
                     IF x \in Names THEN byName[x] ELSE byAddress[x]]

BatchNext ==
  \/ \E n \in 1 .. MaxBatch : \E ops \in [1 .. n -> BatchOps] : BatchStart(ops, MaxBatch)
  \/ \E t \in Tasks : AfterCacheGet(t)
  \/ \E t \in Tasks : \E v \in OpValues(t) : OpSucceed(t, v)
  \/ \E t \in Tasks : \E e \in OpErrors(t) : OpFail(t, e)
  \/ \E t \in Tasks : AfterExec(t)
  \/ \E t \in Tasks : AfterCacheSet(t)
  \/ \E n \in 1 .. MaxBatch : BatchRespond(n)

\* POST /batch with concurrent sub-operations.
BatchSpec == BatchInit /\ [][BatchNext]_vars

StatsNext ==
  \/ \E hit \in BOOLEAN : CacheGetCounted(hit)
  \/ StatsRequest

\* The cache's counters and their report.
StatsSpec == Init /\ [][StatsNext]_vars

WsNext ==
  \/ Connect
  \/ \E c \in 1 .. MaxConns : Pong(c)
  \/ \E c \in 1 .. MaxConns : Tick(c)
  \/ \E c \in 1 .. MaxConns : PeerCloses(c)
  \/ \E c \in 1 .. MaxConns : CloseEvent(c)
  \/ \E failing \in SUBSET (1 .. MaxConns) : Block(failing)

\* The WebSocket server and the block broadcast.
WsSpec == Init /\ [][WsNext]_vars

\* The same, with what the event loop guarantees: the close event of a
\* connection that is closing is delivered.
WsFairSpec == WsSpec /\ \A c \in 1 .. MaxConns : WF_vars(CloseEvent(c))

NotifierNext ==
  \/ \E t \in Tasks : Call(t, DefaultMaxRetries)
  \/ \E t \in Tasks : \E v \in OpValues(t) : OpSucceed(t, v)
  \/ \E t \in Tasks : \E e \in OpErrors(t) : OpFail(t, e)
  \/ \E t \in Tasks : Finish(t)
  \/ Block({})

\* The block listener next to the callers of executeWithFallback.
NotifierSpec == Init /\ [][NotifierNext]_vars

\* The same, with what the event loop and the chain guarantee: replies are
\* delivered, callers go on, and blocks keep coming.
NotifierFairSpec == NotifierSpec /\ WF_vars(NotifierNext) /\ WF_vars(Block({}))

\* Redis is configured or not.
CacheInit ==
  /\ Loaded
  /\ faults = MaxFaults
  /\ RecordsIdle
  /\ WsLoaded
  /\ redisOn \in BOOLEAN
  /\ registry = [n \in Names |-> [resolver |-> TRUE, address |-> "0xA"]]

CacheNext ==
  \/ \E c \in Callers, key \in CacheKeys : CacheGet(c, key)
  \/ \E c \in Callers, ok \in BOOLEAN : CacheGetReply(c, ok)
  \/ \E c \in Callers, key \in CacheKeys, ttl \in {NoTTL, Seconds(CacheTTL)} : CacheSet(c, key, ttl)
  \/ \E c \in Callers, ok \in BOOLEAN : CacheSetReply(c, ok)
  \/ \E c \in Callers, pattern \in Patterns : CacheInvalidate(c, pattern)
  \/ \E c \in Callers, ok \in BOOLEAN : CacheKeysReply(c, ok)
  \/ \E c \in Callers, ok \in BOOLEAN : CacheDelReply(c, ok)
  \/ \E key \in CacheKeys : ExpireMemory(key)
  \/ \E key \in CacheKeys : ExpireRedis(key)

\* Concurrent callers of CacheManager.get, set and invalidate.
CacheSpec == CacheInit /\ [][CacheNext]_vars

\* Redis is configured or not; the name has a resolver, an address and an
\* avatar, and the address has a reverse record.
SingleLookupsInit ==
  /\ Loaded
  /\ faults = MaxFaults
  /\ RecordsIdle
  /\ WsLoaded
  /\ redisOn \in BOOLEAN
  /\ registry = [x \in Names \cup Addresses |->
                   IF x \in Names
                   THEN [resolver |-> TRUE, address |-> "0xA", avatar |-> "ipfs://a"]
                   ELSE [name |-> "alice.eth"]]

SingleLookupsNext ==
  \/ \E t \in Tasks, kind \in {"resolve", "avatar", "records"}, raw \in Names :
       Request(t, kind, raw)
  \/ \E t \in Tasks, raw \in Addresses : Request(t, "reverse", raw)
  \/ \E t \in Tasks, ok \in BOOLEAN : RedisGetReply(t, ok)
  \/ \E t \in Tasks : AfterCacheGet(t)
  \/ \E t \in Tasks : \E v \in OpValues(t) : OpSucceed(t, v)
  \/ \E t \in Tasks : \E e \in OpErrors(t) : OpFail(t, e)
  \/ \E t \in Tasks : AfterExec(t)
  \/ \E t \in Tasks, ok \in BOOLEAN : RedisSetReply(t, ok)
  \/ \E t \in Tasks : AfterCacheSet(t)
  \/ \E key \in DOMAIN memoryCache : ExpireMemory(key)

\* The four single lookups, of well-formed names and addresses, over the
\* cache and the provider manager.
SingleLookupsSpec == SingleLookupsInit /\ [][SingleLookupsNext]_vars

\* The candidates of the query of SearchSpec.
Candidates == {Suggestions("alice")[i] : i \in 1 .. 3}

\* Redis is not configured; each candidate has an address or not; upstream
\* may fail often enough to exhaust one candidate's lookup.
SearchInit ==
  /\ Loaded
  /\ RecordsIdle
  /\ WsLoaded
  /\ faults = DefaultMaxRetries + MaxFaults - 1
  /\ redisOn = FALSE
  /\ registry \in [Candidates -> {[resolver |-> FALSE, address |-> Null],
                                  [resolver |-> TRUE, address |-> "0xA"]}]

SearchNext ==
  \/ \E raw \in RawQueries : Search(raw)
  \/ \E t \in Tasks : \E v \in OpValues(t) : OpSucceed(t, v)
  \/ \E t \in Tasks : \E e \in OpErrors(t) : OpFail(t, e)
  \/ \E t \in Tasks : SearchSettle(t)
  \/ SearchRespond

\* GET /search/:query over the provider manager.
SearchSpec == SearchInit /\ [][SearchNext]_vars

\* The entries a batch of ValidationSpec may carry: a resolve of a
\* well-formed name and a resolve of a name without the .eth suffix.
ValidationOps == {ResolveOp(" Alice.ETH "), ResolveOp("alice")}

\* Redis is not configured; the chain knows the well-formed name and address
\* and has nothing for the name without suffix.
ValidationInit ==
  /\ Loaded
  /\ faults = MaxFaults
  /\ RecordsIdle
  /\ WsLoaded
  /\ redisOn = FALSE
  /\ registry = [x \in RawNames \cup Addresses |->
                   CASE x \in Names ->
                          [resolver |-> TRUE, address |-> "0xA", avatar |-> "ipfs://a"]
                     [] x \in Addresses -> [name |-> "alice.eth"]
                     [] OTHER -> [resolver |-> FALSE, address |-> Null, avatar |-> Null]]

ValidationNext ==
  \/ \E t \in Tasks, kind \in {"resolve", "avatar", "records"}, raw \in RawNames :
       Request(t, kind, raw)
  \/ \E t \in Tasks, raw \in RawAddresses : Request(t, "reverse", raw)
  \/ \E n \in 1 .. MaxBatch : \E ops \in [1 .. n -> ValidationOps] : BatchStart(ops, MaxBatch)
  \/ \E n \in {0, BatchLimit + 1} : BatchRefused(n)
  \/ \E raw \in {" Al "} : Search(raw)
  \/ \E t \in Tasks : AfterCacheGet(t)
  \/ \E t \in Tasks : \E v \in OpValues(t) : OpSucceed(t, v)
  \/ \E t \in Tasks : \E e \in OpErrors(t) : OpFail(t, e)
  \/ \E t \in Tasks : AfterExec(t)
  \/ \E t \in Tasks : AfterCacheSet(t)
  \/ \E n \in 1 .. MaxBatch : BatchRespond(n)

\* The handlers' checks of their input, with well-formed and malformed
\* names, addresses, batches and queries.
ValidationSpec == ValidationInit /\ [][ValidationNext]_vars

\* The batches of DegradedSpec: a resolve and a reverse, and two resolves of
\* the same name.
DegradedBatches ==
  {<<ResolveOp("alice.eth"), ReverseOp("0xabc")>>,
   <<ResolveOp("alice.eth"), ResolveOp("alice.eth")>>}

\* Redis is configured or not; the name has an address and an avatar or
\* neither, and the address has a reverse record; upstream may fail often
\* enough to exhaust one lookup.
DegradedInit ==
  /\ Loaded
  /\ RecordsIdle
  /\ WsLoaded
  /\ faults = DefaultMaxRetries
  /\ redisOn \in BOOLEAN
  /\ \E entry \in {[resolver |-> TRUE, address |-> Null, avatar |-> Null],
                    [resolver |-> TRUE, address |-> "0xA", avatar |-> "ipfs://a"]} :
       registry = [x \in Names \cup Addresses |->
                     IF x \in Names THEN entry ELSE [name |-> "alice.eth"]]

\* Every command sent to Redis fails.
DegradedNext ==
  \/ \E t \in Tasks, kind \in {"resolve", "avatar", "records"}, raw \in Names :
       Request(t, kind, raw)
  \/ \E t \in Tasks, raw \in Addresses : Request(t, "reverse", raw)
  \/ \E ops \in DegradedBatches : BatchStart(ops, Len(ops))
  \/ \E t \in Tasks : RedisGetReply(t, FALSE)
  \/ \E t \in Tasks : AfterCacheGet(t)
  \/ \E t \in Tasks : \E v \in OpValues(t) : OpSucceed(t, v)
  \/ \E t \in Tasks : \E e \in OpErrors(t) : OpFail(t, e)
  \/ \E t \in Tasks : AfterExec(t)
  \/ \E t \in Tasks : RedisSetReply(t, FALSE)
  \/ \E t \in Tasks : AfterCacheSet(t)
  \/ \E ops \in DegradedBatches : BatchRespond(Len(ops))

\* The lookups over the memory tier alone, or over the memory tier and a
\* Redis that cannot be reached.
DegradedSpec == DegradedInit /\ [][DegradedNext]_vars

\* Redis is configured or not; nothing else is going on.
ProcessInit ==
  /\ Loaded
  /\ faults = 0
  /\ RecordsIdle
  /\ WsLoaded
  /\ redisOn \in BOOLEAN
  /\ registry = [n \in Names |-> [resolver |-> TRUE, address |-> "0xA"]]

ProcessNext ==
  \/ UncaughtException
  \/ UnhandledRejection
  \/ \E signal \in {"SIGTERM", "SIGINT"} : Signal(signal)
  \/ \E ok \in BOOLEAN : QuitReply(ok)
  \/ ExitTimer

\* The top-level events of the process, with Redis configured or not.
ProcessSpec == ProcessInit /\ [][ProcessNext]_vars

\* Number of resolve requests in flight at once in ConcurrentSpec.
MaxConcurrent == 2

\* Redis is configured or not; the name has an address; upstream may fail.
ConcurrentInit ==
  /\ Loaded
  /\ faults = MaxFaults
  /\ RecordsIdle
  /\ WsLoaded
  /\ redisOn \in BOOLEAN
  /\ registry = [n \in Names |-> [resolver |-> TRUE, address |-> "0xA"]]

ConcurrentNext ==
  \/ \E t \in Tasks, raw \in Names : RequestWithin(t, "resolve", raw, MaxConcurrent)
  \/ \E t \in Tasks, ok \in BOOLEAN : RedisGetReply(t, ok)
  \/ \E t \in Tasks : AfterCacheGet(t)
  \/ \E t \in Tasks : \E v \in OpValues(t) : OpSucceed(t, v)
  \/ \E t \in Tasks : \E e \in OpErrors(t) : OpFail(t, e)
  \/ \E t \in Tasks : AfterExec(t)
  \/ \E t \in Tasks, ok \in BOOLEAN : RedisSetReply(t, ok)
  \/ \E t \in Tasks : AfterCacheSet(t)

\* Resolve requests for one name that overlap.
ConcurrentSpec == ConcurrentInit /\ [][ConcurrentNext]_vars

\* Redis is configured and answers.  FrameSpec takes calls of
\* executeWithFallback next to everything else that runs in the process: the
\* two status endpoints, a caller of the cache on one key (its calls and the
\* calls of executeWithFallback one at a time), and the events of one
\* WebSocket connection and of the block listener.
FrameInit ==
  /\ Loaded
  /\ faults = MaxFaults
  /\ RecordsIdle
  /\ WsLoaded
  /\ redisOn = TRUE
  /\ registry = [n \in Names |-> [resolver |-> TRUE, address |-> "0xA"]]

\* Calls of executeWithFallback next to everything else that runs in the
\* process: the two status endpoints, calls of the cache on one key, and the
\* events of one WebSocket connection and of the block listener.
FrameNext ==
  \/ InFlight = {} /\ cacheCall[1].pc = "idle" /\ \E t \in Tasks : Call(t, DefaultMaxRetries)
  \/ \E t \in Tasks : \E v \in OpValues(t) : OpSucceed(t, v)
  \/ \E t \in Tasks : \E e \in OpErrors(t) \cap {"timeout"} : OpFail(t, e)
  \/ \E t \in Tasks : Finish(t)
  \/ StatsRequest
  \/ \E ok \in BOOLEAN : Health(ok)
  \/ InFlight = {} /\ \E c \in {1} : CacheGet(c, CacheKey("resolve", "alice.eth"))
  \/ \E c \in {1}, ok \in {TRUE} : CacheGetReply(c, ok)
  \/ InFlight = {} /\ \E c \in {1} : CacheSet(c, CacheKey("resolve", "alice.eth"), NoTTL)
  \/ \E c \in {1}, ok \in {TRUE} : CacheSetReply(c, ok)
  \/ InFlight = {} /\ \E c \in {1} : CacheInvalidate(c, "alice.eth")
  \/ \E c \in {1}, ok \in {TRUE} : CacheKeysReply(c, ok)
  \/ \E c \in {1}, ok \in {TRUE} : CacheDelReply(c, ok)
  \/ clients = <<>> /\ Connect
  \/ \E c \in DOMAIN clients : Pong(c)
  \/ \E c \in DOMAIN clients : Tick(c)
  \/ \E c \in DOMAIN clients : PeerCloses(c)
  \/ \E c \in DOMAIN clients : CloseEvent(c)
  \/ Block({})

\* Everything that runs next to executeWithFallback.
FrameSpec == FrameInit /\ [][FrameNext]_vars

\* One endpoint answers every call made to it (the chain is reachable
\* through it); the others answer or fail.
HealthyInit ==
  /\ Loaded
  /\ faults = 0
  /\ RecordsIdle
  /\ WsLoaded
  /\ redisOn = FALSE
  /\ \E h \in Endpoints : registry = [healthy |-> h]

\* Calls of executeWithFallback that do not overlap: a call starts when no
\* operation is awaited.  The callers keep what they got, so the calls sit
\* in the slots in the order they were made.
HealthyNext ==
  \/ \E t \in Tasks : (\A u \in Tasks : task[u].pc # "op") /\ Call(t, DefaultMaxRetries)
  \/ \E t \in Tasks : \E v \in OpValues(t) : OpSucceed(t, v)
  \/ \E t \in Tasks : \E e \in OpErrors(t) :
       task[t].provider # registry.healthy /\ OpFail(t, e)

\* Direct callers of executeWithFallback, one after the other, while one
\* endpoint is healthy.
HealthySpec == HealthyInit /\ [][HealthyNext]_vars

\* Redis is configured or not; the chain holds any entry for the name;
\* upstream may fail on the network often enough to exhaust a lookup.
FailingInit ==
  /\ Loaded
  /\ faults = DefaultMaxRetries
  /\ RecordsIdle
  /\ WsLoaded
  /\ redisOn \in BOOLEAN
  /\ registry \in [Names -> RegistryEntries]

\* Single lookups, one after the other, of well-formed and malformed names.
FailingNext ==
  \/ \E t \in Tasks, kind \in {"resolve", "records"}, raw \in RawNames :
       InFlight = {} /\ Request(t, kind, raw)
  \/ \E t \in Tasks, ok \in BOOLEAN : RedisGetReply(t, ok)
  \/ \E t \in Tasks : AfterCacheGet(t)
  \/ \E t \in Tasks : \E v \in OpValues(t) : OpSucceed(t, v)
  \/ \E t \in Tasks : \E e \in OpErrors(t) : OpFail(t, e)
  \/ \E t \in Tasks : AfterExec(t)
  \/ \E t \in Tasks, ok \in BOOLEAN : RedisSetReply(t, ok)
  \/ \E t \in Tasks : AfterCacheSet(t)
  \/ \E key \in DOMAIN memoryCache : ExpireMemory(key)

\* The single lookups that succeed, are refused, find nothing or run out
\* of attempts.
FailingSpec == FailingInit /\ [][FailingNext]_vars

TypeOK ==
  /\ currentIndex \in Endpoints
  /\ DOMAIN failureCount \subseteq Endpoints
  /\ started \in Nat
  /\ redisOn \in BOOLEAN
  /\ \A t \in Tasks : task[t].pc \in
       {"idle", "redisGet", "cacheGot", "op", "returned", "threw", "redisSet",
        "cacheSet", "settled"}

\* ------------------------------------------------ claims: provider rotation

\* Number of the first k attempts of a call started at cursor c that ran
\* against endpoint e, when no other call moved the cursor.
TimesFailed(c, k, e) == Cardinality({j \in 0 .. (k - 1) : (c + j) % NumProviders = e})

\* C1: a call that runs with no other call in flight, starts at cursor c and
\* sees k failures followed by a success returns the result of endpoint
\* (c + k) mod N, leaves the cursor there, leaves that endpoint's failure count
\* at 0, has raised the count of every endpoint it failed on by one per failure
\* and has left every other count as it was.
C1_FallbackSettles ==
  \A t \in Tasks :
    (task[t].pc = "returned" /\ hist[t].alone) =>
      LET k == hist[t].failed
          c == hist[t].c0
          last == (c + k) % NumProviders
      IN /\ k < task[t].maxRetries
         /\ hist[t].invoked = k + 1
         /\ task[t].out.from = last
         /\ currentIndex = last
         /\ Count(failureCount, last) = 0
         /\ \A e \in Endpoints \ {last} :
              Count(failureCount, e) = Count(hist[t].f0, e) + TimesFailed(c, k, e)

\* C1's case: four endpoints, cursor 0, endpoints 0 and 1 failed, endpoint 2
\* succeeded.
C1_Witness ==
  \E t \in Tasks :
    /\ task[t].pc = "returned" /\ hist[t].alone
    /\ hist[t].c0 = 0 /\ hist[t].f0 = <<>> /\ hist[t].failed = 2
    /\ NumProviders = 4
    /\ currentIndex = 2
    /\ Count(failureCount, 0) = 1 /\ Count(failureCount, 1) = 1
    /\ Count(failureCount, 2) = 0

\* C2: a call whose every attempt fails invokes its operation exactly
\* maxRetries times (3, the default) and then throws the all-providers-failed
\* error, which carries the attempt count and the message of the last failure.
C2_ExhaustedAfterMaxAttempts ==
  \A t \in Tasks :
    /\ task[t].pc = "op" => hist[t].failed < task[t].maxRetries
    /\ task[t].pc # "idle" => hist[t].invoked <= task[t].maxRetries
    /\ (task[t].pc # "idle" /\ hist[t].failed = hist[t].invoked /\
        hist[t].invoked = task[t].maxRetries) => task[t].pc = "threw"
    /\ task[t].pc = "threw" =>
         /\ task[t].maxRetries = DefaultMaxRetries
         /\ hist[t].invoked = task[t].maxRetries
         /\ hist[t].failed = task[t].maxRetries
         /\ task[t].out.name = "AllProvidersFailed"
         /\ task[t].out.attempts = task[t].maxRetries
         /\ task[t].out.cause = hist[t].lastMsg
         /\ hist[t].lastMsg \in ErrMsgs

\* C2's case: a call has thrown after three failures, the last one with a
\* message of its own.
C2_Witness ==
  \E t \in Tasks :
    /\ task[t].pc = "threw" /\ hist[t].failed = 3
    /\ task[t].out.cause = "bad response"

\* The step in which call t resumes from an operation that succeeded.
SuccessStep(t) == task[t].pc = "op" /\ task'[t].pc = "returned"

\* The step in which call t resumes from an operation that failed.
FailStep(t) ==
  /\ task[t].pc = "op" /\ task'[t].pc \in {"op", "threw"}
  /\ task'[t].attempt = task[t].attempt + 1

C4_FailureCountsAttemptedEndpoint ==
  [][/\ \A t \in Tasks :
          FailStep(t) =>
            Count(failureCount', task[t].provider) =
              Count(failureCount, task[t].provider) + 1
     /\ \A i \in Endpoints :
          Count(failureCount', i) > Count(failureCount, i) =>
            \E t \in Tasks : FailStep(t) /\ task[t].provider = i]_vars

\* C5: a failed attempt against endpoint i sets the cursor to (i + 1) mod N.
C5_FailureAdvancesFromAttempted ==
  [][\A t \in Tasks :
       FailStep(t) => currentIndex' = (task[t].provider + 1) % NumProviders]_vars

\* C6: the cursor always names an endpoint.
C6_CursorInRange == currentIndex \in Int /\ 0 <= currentIndex /\ currentIndex < NumProviders

\* C6's case: a failure was counted on the last endpoint and the cursor has
\* wrapped around to the first.
C6_Witness ==
  /\ currentIndex = 0
  /\ Count(failureCount, NumProviders - 1) >= 1

\* C7: a success leaves the cursor where it is, and a new call makes its first
\* attempt against the endpoint under the cursor.
C7_SuccessKeepsCursor ==
  [][\A t \in Tasks :
       /\ SuccessStep(t) => currentIndex' = currentIndex
       /\ (task[t].pc = "idle" /\ task'[t].pc = "op") =>
            /\ task'[t].provider = currentIndex
            /\ task'[t].attempt = 0
            /\ currentIndex' = currentIndex]_vars

\* C7's case: a call succeeded through an endpoint other than the first, and
\* the next call is making its first attempt against that same endpoint.
C7_Witness ==
  \E t \in Tasks :
    /\ task[t].pc = "op" /\ task[t].attempt = 0
    /\ task[t].provider # 0 /\ task[t].provider = currentIndex
    /\ started >= 2 /\ InFlight = {t}
    /\ task[t].provider \in DOMAIN failureCount
    /\ failureCount[task[t].provider] = 0

\* --------------------------------------------------- claims: single lookups

\* A single resolve has just been answered.
ResolveAnswered == IF lastResp = NoValue THEN FALSE ELSE lastResp.kind = "resolve"

\* A records lookup has just been answered.
RecordsAnswered == IF lastResp = NoValue THEN FALSE ELSE lastResp.kind = "records"

\* The answer just sent is a 200 that carries the address a.
AnswersAddress(a) ==
  /\ lastResp.resp.status = 200
  /\ lastResp.resp.body.address = a

C9_NullAddressIsNotFound ==
  ResolveAnswered /\ isValidENSName(lastResp.name) =>
    /\ ~AnswersAddress(Null)
    /\ (registry[lastResp.name].address = Null /\ lastResp.failed < DefaultMaxRetries =>
          /\ lastResp.resp.status = 404
          /\ lastResp.resp.error = "ENS name not found")

\* C10: a records lookup of a well-formed name that has no resolver is answered
\* 404 with the message "ENS resolver not found", the error the operation
\* threw.
C10_NoResolverIsNotFound ==
  RecordsAnswered /\ isValidENSName(lastResp.name) =>
    (~registry[lastResp.name].resolver =>
       /\ lastResp.resp.status = 404
       /\ lastResp.resp.error = "ENS resolver not found")

\* ------------------------------------------------ claims: the other lookups

\* The text field keys[i] is present: getText fulfils with a non-empty text.
HasText(i) == resolverTexts[i] = TextOf(TextKeys[i])

\* C11: the records operation, for a name whose resolver exists, returns an
\* object with the eight keys in which every text field the resolver holds
\* carries its value and every field it lacks (or holds empty, or fails to
\* read) is null; a missing field does not fail the operation.
C11_MissingTextFieldsAreNull ==
  records # NoValue =>
    /\ DOMAIN records = {TextKeys[i] : i \in DOMAIN TextKeys}
    /\ \A i \in DOMAIN TextKeys :
         records[TextKeys[i]] = IF HasText(i) THEN TextOf(TextKeys[i]) ELSE Null

\* C11 witness: the operation has returned for a resolver that lacks email
\* and holds url.
C11_Witness ==
  /\ records # NoValue
  /\ resolverTexts[1] = Null
  /\ HasText(2)
  /\ IF records = NoValue THEN FALSE
     ELSE records["email"] = Null /\ records["url"] = "text of url"

\* A lookup of this kind has just been answered.
JustAnswered(kind) == IF lastResp = NoValue THEN FALSE ELSE lastResp.kind = kind

\* The answer just sent is a fresh 200 whose result object cache.set put in
\* the memory tier under the key, where it still is unless its TTL ran out.
FreshAndCached(key) ==
  /\ lastResp.resp.status = 200
  /\ ~lastResp.resp.cached
  /\ lastResp.wrote = <<key, lastResp.resp.body>>
  /\ (~lastResp.expired =>
        IF key \in DOMAIN memoryCache THEN memoryCache[key] = lastResp.resp.body
        ELSE FALSE)

\* C12: a reverse lookup of a valid address with no reverse record that
\* reaches upstream and gets its answer is a success {address, name: null},
\* and that result has been written to the cache under reverse:<address>
\* when it is returned.
C12_NoReverseRecordIsNullName ==
  JustAnswered("reverse") /\ isValidAddress(lastResp.name) =>
    (lastResp.upstream = Null =>
       /\ lastResp.resp.body.address = lastResp.name
       /\ lastResp.resp.body.name = Null
       /\ FreshAndCached(<<"reverse", lastResp.name>>))

\* C12 witness: such a reverse lookup has been answered.
C12_Witness ==
  /\ JustAnswered("reverse")
  /\ lastResp.upstream = Null
  /\ lastResp.resp.status = 200
  /\ <<"reverse", "0xabc">> \in DOMAIN memoryCache

\* C13: an avatar lookup of a valid name whose avatar is null, or which has
\* no resolver at all, that reaches upstream and gets its answer is a success
\* with avatar: null, and that result has been written to the cache under
\* avatar:<name>.
C13_NullAvatarIsSuccess ==
  JustAnswered("avatar") /\ isValidENSName(lastResp.name) =>
    (lastResp.upstream \in {Null, Undefined} =>
       /\ lastResp.resp.body.name = lastResp.name
       /\ lastResp.resp.body.avatar = Null
       /\ FreshAndCached(<<"avatar", lastResp.name>>))

\* C13 witness: an avatar lookup of a name without a resolver has been
\* answered.
C13_Witness ==
  /\ JustAnswered("avatar")
  /\ lastResp.upstream = Undefined
  /\ lastResp.resp.status = 200
  /\ ~registry[lastResp.name].resolver

\* ----------------------------------------------------------- claims: batch

\* Sub-operation sub failed on its own: its type is none the batch knows, or
\* every upstream attempt it made failed.
SubFailed(sub) == sub.kind = "batchInvalid" \/ sub.failed = DefaultMaxRetries

\* The entry is the fulfilled result of sub-operation sub, with what the
\* chain holds for its argument.
EntryDescribes(entry, sub) ==
  /\ entry.status = "fulfilled"
  /\ entry.error = NoError
  /\ IF sub.kind = "batchResolve"
     THEN /\ entry.body.name = sub.name
          /\ entry.body.address = registry[sub.name].address
     ELSE /\ entry.body.address = sub.name
          /\ entry.body.name = registry[sub.name].name

\* C14: a batch of n sub-operations is answered 200 with n entries; entry i
\* is rejected, with a reason, exactly when sub-operation i failed on its
\* own, and otherwise is the fulfilled result of sub-operation i, whatever
\* order the sub-operations finished in and whatever happened to the others.
C14_BatchEntriesInRequestOrder ==
  JustAnswered("batch") =>
    /\ lastResp.resp.status = 200
    /\ Len(lastResp.resp.body) = Len(lastResp.name)
    /\ \A i \in DOMAIN lastResp.name :
         IF SubFailed(lastResp.name[i])
         THEN /\ lastResp.resp.body[i].status = "rejected"
              /\ lastResp.resp.body[i].error # NoError
              /\ lastResp.resp.body[i].body = NoValue
         ELSE EntryDescribes(lastResp.resp.body[i], lastResp.name[i])

\* C14 witness: a batch of two has been answered whose second sub-operation
\* ran out of upstream attempts and whose first one is fulfilled.
C14_Witness ==
  /\ JustAnswered("batch")
  /\ IF lastResp = NoValue THEN FALSE
     ELSE /\ Len(lastResp.name) = 2
          /\ lastResp.name[2].failed = DefaultMaxRetries
          /\ lastResp.resp.body[2].status = "rejected"
          /\ lastResp.resp.body[1].status = "fulfilled"

\* What GET /resolve/:name does with the address upstream returned for a
\* name: a 404 for null, and otherwise the result object it caches and
\* returns.
SingleResolveOutcome(name, address) ==
  IF address = Null
  THEN Rejected(createError("ENS name not found", 404))
  ELSE Fulfilled(BuildResult("resolve", name, address))

\* C15: a resolve sub-operation of a batch that reaches upstream and gets its
\* answer ends as the single resolve endpoint does for the same name: the
\* not-found error for a null address, and otherwise the same result object,
\* which is also what the cache then holds under resolve:<name>.
C15_BatchSubOpMatchesSingle ==
  JustAnswered("batch") =>
    \A i \in DOMAIN lastResp.name :
      LET sub == lastResp.name[i] IN
      (sub.kind = "batchResolve" /\ sub.missed /\ sub.upstream # NoError) =>
        /\ lastResp.resp.body[i] = SingleResolveOutcome(sub.name, sub.upstream)
        /\ (<<"resolve", sub.name>> \in DOMAIN memoryCache =>
              /\ sub.upstream # Null
              /\ memoryCache[<<"resolve", sub.name>>] =
                   BuildResult("resolve", sub.name, sub.upstream))

\* ------------------------------------------------- claims: cache statistics

\* C16: the reported hit rate is hits / (hits + misses) as a percentage
\* rounded to two decimals: "70.00%" after 3 misses and 7 hits, "0.00%"
\* before any lookup, "100.00%" after hits only, and between the counts'
\* exact percentage minus and plus half a hundredth in general.
C16_HitRateTwoDecimals ==
  JustAnswered("stats") =>
    LET h == lastResp.resp.body.hits
        m == lastResp.resp.body.misses
        rate == lastResp.resp.body.hitRate
    IN /\ (h = 0 /\ m = 0 => rate = "0.00%")
       /\ (h = 7 /\ m = 3 => rate = "70.00%")
       /\ (h > 0 /\ m = 0 => rate = "100.00%")
       /\ (h = 0 /\ m > 0 => rate = "0.00%")
       /\ (h = 1 /\ m = 2 => rate = "33.33%")
       /\ (h = 2 /\ m = 1 => rate = "66.67%")
       /\ (h + m > 0 =>
            \E points \in 0 .. 10000 :
              /\ rate = toFixed2(points) \o "%"
              /\ 2 * (points * (h + m) - 10000 * h) <= h + m
              /\ 2 * (10000 * h - points * (h + m)) <= h + m)

\* C16 witness: the statistics have been reported after 7 hits and 3 misses.
C16_Witness ==
  /\ JustAnswered("stats")
  /\ stats.hits = 7
  /\ stats.misses = 3
  /\ IF lastResp = NoValue THEN FALSE ELSE lastResp.resp.body.hitRate = "70.00%"

\* ------------------------------------------------------- claims: WebSocket

\* Connection c was let into the set when it arrived.
Subscriber(c) == c \in DOMAIN clients /\ clients[c].code # 1008

\* C17: at a heartbeat tick, a subscriber that has not answered the probe is
\* terminated (its timer stops, it is open no longer) and one that has
\* answered is marked as awaiting an answer again and sent a new probe; a
\* connection that is not open receives no block broadcast; and a terminated
\* subscriber is eventually removed from the connection set.
C17_SilentSubscriberTerminated ==
  /\ [][\A c \in 1 .. MaxConns :
          Tick(c) =>
            IF clients[c].isAlive
            THEN /\ ~clients'[c].isAlive
                 /\ clients[c].state = "open" => clients'[c].probe = "sent"
                 /\ clients'[c].state = clients[c].state
            ELSE /\ clients'[c].state = "closing"
                 /\ ~clients'[c].timer]_vars
  /\ [](\A c \in DOMAIN clients :
          clients[c].state # "open" => c \notin notifier.delivered)
  /\ \A c \in 1 .. MaxConns :
       (Subscriber(c) /\ clients[c].state = "closing") ~> (Subscriber(c) /\ ~clients[c].inSet)

\* C17 witness: a subscriber terminated by the heartbeat has been removed
\* from the set while another connection was sent a block.
C17_Witness ==
  \E c \in DOMAIN clients :
    /\ clients[c].byHeartbeat
    /\ ~clients[c].inSet
    /\ notifier.delivered # {}

\* The connections of the set that are open.
OpenConnected == {c \in Connected : clients[c].state = "open"}

\* C18: the connection set never holds more than the configured maximum; a
\* connection that arrives while the set is at capacity is closed with code
\* 1008, and a connection closed that way is not in the set, has no
\* heartbeat timer and has been sent neither the welcome payload, nor a
\* probe, nor a block.
C18_ConnectionSetBounded ==
  /\ [](Cardinality(Connected) <= WsMaxClients)
  /\ [][(Len(clients') = Len(clients) + 1 /\ Cardinality(Connected) >= WsMaxClients)
          => clients'[Len(clients')].code = 1008]_vars
  /\ [](\A c \in DOMAIN clients :
          clients[c].code = 1008 =>
            /\ ~clients[c].inSet
            /\ clients[c].state # "open"
            /\ ~clients[c].welcome
            /\ ~clients[c].timer
            /\ clients[c].probe = "none"
            /\ c \notin notifier.offered)

\* C18 witness: a connection has been turned away, the set is full, and a
\* block has been broadcast to the connections of the set.
C18_Witness ==
  /\ \E c \in DOMAIN clients : clients[c].code = 1008
  /\ Cardinality(Connected) = WsMaxClients
  /\ notifier.delivered = Connected

\* C19: a block event calls send on every connection of the set that is
\* open, and the payload reaches each of them but those whose send failed: a
\* failed send does not cut the others off.
C19_BroadcastSurvivesSendFailure ==
  (notifier.offered # {} \/ notifier.failed # {}) =>
    /\ notifier.offered = OpenConnected
    /\ notifier.delivered = OpenConnected \ notifier.failed

\* C19 witness: a block event whose send failed for one connection has
\* reached a connection that comes later in the set.
C19_Witness ==
  \E f \in notifier.failed : \E d \in notifier.delivered : f < d

\* C20: whenever the rotation cursor is away from the endpoint the block
\* listener is attached to, the two eventually agree again.
C20_NotifierFollowsCursor ==
  (currentIndex # notifier.source) ~> (currentIndex = notifier.source)

\* ------------------------------------------------------ claims: cache tier

\* The step just taken returned from a cache call of this kind.
JustReturned(op) == IF lastRet = NoValue THEN FALSE ELSE lastRet.op = op

\* C21: a get of a key the memory tier holds returns that value in the same
\* step, counts one hit and no miss, sends no command to Redis and leaves
\* both tiers as they were.
C21_MemoryHitSkipsRedis ==
  [][\A c \in Callers, key \in CacheKeys :
       (CacheGet(c, key) /\ key \in DOMAIN memoryCache) =>
         /\ IF lastRet' = NoValue THEN FALSE
            ELSE /\ lastRet'.op = "get"
                 /\ lastRet'.key = key
                 /\ lastRet'.ret = memoryCache[key]
         /\ stats' = [stats EXCEPT !.hits = @ + 1]
         /\ redisQueue' = redisQueue
         /\ cacheCall' = cacheCall
         /\ redisStore' = redisStore
         /\ memoryCache' = memoryCache]_vars

\* C21 witness: with Redis configured and holding a value for the key, a get
\* has been served by the memory tier.
C21_Witness ==
  /\ redisOn
  /\ JustReturned("get")
  /\ lastRet.served = "memory"
  /\ lastRet.key \in DOMAIN redisStore

\* C22: a get that finds its key in Redis only returns the value stored
\* there, counts one hit and no miss, and has put the value in the memory
\* tier when it returns; a get of the same key in the next step is served by
\* the memory tier with the same value.
C22_RedisHitPromoted ==
  /\ [][\A c \in Callers :
          (CacheGetReply(c, TRUE) /\ cacheCall[c].key \in DOMAIN redisStore) =>
            LET key == cacheCall[c].key IN
            /\ IF lastRet' = NoValue THEN FALSE
               ELSE /\ lastRet'.op = "get"
                    /\ Serialize(lastRet'.ret) = redisStore[key].text
                    /\ key \in DOMAIN memoryCache'
                    /\ memoryCache'[key] = lastRet'.ret
            /\ stats' = [stats EXCEPT !.hits = @ + 1]]_vars
  /\ [][\A c \in Callers, key \in CacheKeys :
          (/\ JustReturned("get")
           /\ lastRet.served = "redis"
           /\ lastRet.key = key
           /\ CacheGet(c, key)) =>
            IF lastRet' = NoValue THEN FALSE
            ELSE lastRet'.served = "memory" /\ lastRet'.ret = lastRet.ret]_vars

\* C22 witness: a get has been served by Redis, of a key the memory tier had
\* lost.
C22_Witness ==
  /\ JustReturned("get")
  /\ lastRet.served = "redis"
  /\ lastRet.ret = Versioned(1)

\* C23: set writes the memory tier before it turns to Redis; when the Redis
\* write fails, set returns normally all the same and leaves both tiers as
\* they are, so the memory tier holds the new value (unless another call or
\* the TTL took the entry in the meantime), and a get of the key in the next
\* step returns it.
C23_SetSurvivesRedisFailure ==
  /\ [][\A c \in Callers, key \in CacheKeys, ttl \in {NoTTL, Seconds(CacheTTL)} :
          CacheSet(c, key, ttl) =>
            key \in DOMAIN memoryCache' /\ memoryCache'[key] = Versioned(started + 1)]_vars
  /\ [][\A c \in Callers :
          CacheSetReply(c, FALSE) =>
            /\ IF lastRet' = NoValue THEN FALSE
               ELSE /\ lastRet'.op = "set"
                    /\ ~lastRet'.threw
                    /\ lastRet'.ret = "void"
            /\ memoryCache' = memoryCache
            /\ redisStore' = redisStore
            /\ stats' = [stats EXCEPT !.sets = @ + 1]
            /\ cacheCall[c].intact =>
                 /\ cacheCall[c].key \in DOMAIN memoryCache
                 /\ memoryCache[cacheCall[c].key] = cacheCall[c].value]_vars
  /\ [][\A c \in Callers, key \in CacheKeys :
          (/\ JustReturned("set")
           /\ lastRet.failed
           /\ lastRet.intact
           /\ lastRet.key = key
           /\ CacheGet(c, key)) =>
            IF lastRet' = NoValue THEN FALSE
            ELSE lastRet'.ret = lastRet.value]_vars

\* C23 witness: a set whose Redis write failed has returned, and the memory
\* tier holds its value, which Redis does not.
C23_Witness ==
  /\ JustReturned("set")
  /\ lastRet.failed
  /\ lastRet.key \in DOMAIN memoryCache
  /\ memoryCache[lastRet.key] = lastRet.value
  /\ lastRet.key \notin DOMAIN redisStore

\* C25: when an invalidate returns and none of its Redis commands failed, no
\* key that contained the pattern and was in a tier when the invalidate
\* started (and that no set has written since) is left in either tier,
\* whatever gets ran alongside it.
C25_InvalidateRemovesMatchingKeys ==
  (JustReturned("invalidate") /\ ~lastRet.failed) =>
    \A key \in lastRet.owed :
      key \notin DOMAIN memoryCache /\ key \notin DOMAIN redisStore

\* C26: every entry a lookup has written carries a time-to-live in each
\* tier: the memory tier's entries always do (stdTTL), and every key the
\* lookups leave in Redis has an expiry.
C26_EveryEntryExpires ==
  \A key \in DOMAIN redisStore : redisStore[key].expiry.given

\* C27: whenever a key is in both tiers, the value in the memory tier was
\* written by the same set as the value in Redis or by a later one.
C27_MemoryNotOlderThanRedis ==
  \A key \in (DOMAIN memoryCache) \cap (DOMAIN redisStore) :
    memoryCache[key].version >= Parse(redisStore[key].text).version

\* ------------------------------------------------ claims: lookup handlers

\* The single lookups.
SingleKinds == {"resolve", "reverse", "avatar", "records"}

\* C28: a single lookup that starts while its key is in the memory tier gets
\* that value from cache.get, and one whose cache.get resumes from Redis with
\* a value gets the value stored there; the handler that resumes with a
\* cached value answers 200 with that value tagged cached: true and is done,
\* having never entered executeWithFallback; none of these steps changes the
\* cursor or a failure counter.  An answer tagged cached: true made no upstream call, and a 200
\* answer computed from an upstream reply is tagged cached: false.
C28_CacheHitShortCircuits ==
  /\ [][\A t \in Tasks :
          (/\ task[t].pc = "idle"
           /\ task'[t].pc \in {"cacheGot", "redisGet"}
           /\ task'[t].kind \in SingleKinds) =>
            /\ KeyOf(t)' \in DOMAIN memoryCache =>
                 /\ task'[t].pc = "cacheGot"
                 /\ task'[t].got = memoryCache[KeyOf(t)']
            /\ UNCHANGED pmVars]_vars
  /\ [][\A t \in Tasks :
          (/\ task[t].pc = "redisGet"
           /\ task'[t].pc = "cacheGot"
           /\ task'[t].got # NoValue) =>
            /\ KeyOf(t) \in DOMAIN redisStore
            /\ Serialize(task'[t].got) = redisStore[KeyOf(t)].text
            /\ UNCHANGED pmVars]_vars
  /\ [][\A t \in Tasks :
          (/\ task[t].pc = "cacheGot"
           /\ task[t].got # NoValue
           /\ task[t].kind \in SingleKinds
           /\ task'[t] # task[t]) =>
            /\ IF lastResp' = NoValue THEN FALSE
               ELSE /\ lastResp'.resp = [status |-> 200, error |-> NoError,
                                         cached |-> TRUE, body |-> task[t].got]
                    /\ lastResp'.invoked = 0
                    /\ lastResp'.failed = 0
            /\ task'[t] = IdleTask
            /\ UNCHANGED pmVars]_vars
  /\ [](\A kind \in SingleKinds :
          (JustAnswered(kind) /\ lastResp.resp.status = 200) =>
            IF lastResp.resp.cached
            THEN lastResp.invoked = 0 /\ lastResp.upstream = NoError /\ ~lastResp.missed
            ELSE /\ lastResp.invoked >= 1
                 /\ lastResp.missed
                 /\ lastResp.resp.body =
                      BuildResult(kind, lastResp.name, lastResp.upstream))

\* C28 witness: after an upstream failure has moved the cursor and left a
\* failure count, a records lookup has been answered from the cache.
C28_Witness ==
  /\ JustAnswered("records")
  /\ lastResp.resp.cached
  /\ lastResp.invoked = 0
  /\ currentIndex # 0
  /\ failureCount # <<>>

\* What a search should report for the candidates whose lookups are subs:
\* those for which executeWithFallback returned an address, in order.
RECURSIVE Resolved(_)
Resolved(subs) ==
  IF subs = <<>> THEN <<>>
  ELSE (IF Head(subs).upstream \notin {NoError, Null}
        THEN <<[name |-> Head(subs).name, address |-> Head(subs).upstream,
                available |-> FALSE]>>
        ELSE <<>>)
       \o Resolved(Tail(subs))

\* C30: a search whose query has at least three characters is answered 200
\* with the three candidate names as suggestions and, as found, exactly the
\* candidates for which executeWithFallback returned an address that is not
\* null, in order; a candidate whose lookup failed, exhaustion of the
\* providers included, is not among them and the answer is still 200.
C30_SearchAlwaysSucceeds ==
  (JustAnswered("search") /\ lastResp.resp.status # 400) =>
    /\ lastResp.resp.status = 200
    /\ lastResp.resp.body.suggestions =
         [i \in 1 .. 3 |-> lastResp.name[i].name]
    /\ lastResp.resp.body.suggestions \in
         {Suggestions(sanitizeInput(raw)) : raw \in RawQueries}
    /\ lastResp.resp.body.found = Resolved(lastResp.name)

\* C30 witness: a search has been answered in which one candidate's lookup
\* failed on every attempt, one candidate has no address and one was found.
C30_Witness ==
  /\ JustAnswered("search")
  /\ lastResp.resp.status = 200
  /\ \E i \in 1 .. 3 : lastResp.name[i].failed = DefaultMaxRetries
  /\ \E i \in 1 .. 3 : lastResp.name[i].upstream = Null
  /\ Len(lastResp.resp.body.found) = 1

\* The step answers 400 and changes neither the rotation state, nor the
\* cache and its counters, nor any request in flight.
RefusedAtOnce ==
  /\ IF lastResp' = NoValue THEN FALSE ELSE lastResp'.resp.status = 400
  /\ UNCHANGED <<pmVars, cacheVars, task>>

\* The single endpoints, the batch's size checks and the search refuse
\* malformed input at once.
HandlersRefuseMalformed ==
  /\ [][\A t \in Tasks, kind \in SingleKinds, raw \in RawNames \cup RawAddresses :
          (Request(t, kind, raw) /\ ~ValidParam(kind, sanitizeInput(raw)))
            => RefusedAtOnce]_vars
  /\ [][\A n \in {0, BatchLimit + 1} : BatchRefused(n) => RefusedAtOnce]_vars
  /\ [][\A raw \in RawQueries :
          (Search(raw) /\ Len(sanitizeInput(raw)) < MinQuery) => RefusedAtOnce]_vars

\* The check a lookup of this kind owes its parameter.
WellFormed(kind, x) ==
  IF kind \in {"reverse", "batchReverse"} THEN isValidAddress(x) ELSE isValidENSName(x)

\* C29: malformed input is answered 400 at once, before any cache read and
\* any provider call, and changes nothing: this holds of the single
\* endpoints, of the batch's size checks and of the search, and no lookup,
\* a batch's sub-operation included, gets as far as the cache or a
\* provider with a malformed name or address, so that the cache holds no
\* entry for one.
C29_MalformedInputRefusedEarly ==
  /\ HandlersRefuseMalformed
  /\ [](\A t \in Tasks :
          (task[t].kind \in LookupKinds /\ task[t].pc \notin {"idle", "settled"})
            => WellFormed(task[t].kind, task[t].name))
  /\ [](\A key \in DOMAIN memoryCache : WellFormed(key[1], key[2]))

\* ------------------------------------------------ claims: Redis unreachable

\* What a lookup answers when its cache.get found nothing, from what its
\* upstream call came to: every attempt failed, a null address for a single
\* resolve, or the result object built from upstream's answer.
MissOutcome(kind, name, failed, upstream) ==
  CASE failed = DefaultMaxRetries ->
         errorHandler(AllProvidersFailed(DefaultMaxRetries, "timeout"))
    [] kind = "resolve" /\ upstream = Null ->
         errorHandler(createError("ENS name not found", 404))
    [] OTHER -> Ok(BuildResult(kind, name, upstream), FALSE)

\* The same for a sub-operation of a batch.
SubMissOutcome(sub) ==
  IF sub.failed = DefaultMaxRetries
  THEN Rejected(AllProvidersFailed(DefaultMaxRetries, "timeout"))
  ELSE Fulfilled(BuildResult(sub.kind, sub.name, sub.upstream))

\* C24: whether Redis is absent or configured and failing on every command,
\* a lookup (resolve, reverse, avatar, records, sub-operation of a batch) is
\* served from the memory tier exactly when its key is there as it starts;
\* a failed Redis read leaves the lookup where a miss without Redis leaves
\* it, and a failed Redis write leaves it where a write without Redis
\* leaves it, the memory tier written and the set counted; Redis never holds
\* anything; and every answer is the memory tier's value tagged cached, or
\* what upstream's outcome alone determines: no status, error or result
\* comes from Redis.
C24_FailingRedisIsTransparent ==
  /\ [](redisStore = <<>>)
  /\ [][\A t \in Tasks :
          (/\ task[t].pc = "idle"
           /\ task'[t].pc \in {"cacheGot", "redisGet"}) =>
            IF KeyOf(t)' \in DOMAIN memoryCache
            THEN task'[t].pc = "cacheGot" /\ task'[t].got = memoryCache[KeyOf(t)']
            ELSE task'[t].got = NoValue]_vars
  /\ [][\A t \in Tasks :
          (task[t].pc = "redisGet" /\ task'[t] # task[t]) =>
            /\ task' = [task EXCEPT ![t].pc = "cacheGot"]
            /\ task[t].got = NoValue
            /\ stats' = [stats EXCEPT !.misses = @ + 1]
            /\ UNCHANGED <<memoryCache, pmVars>>
            /\ lastResp' = NoValue]_vars
  /\ [][\A t \in Tasks :
          (task[t].pc = "redisSet" /\ task'[t] # task[t]) =>
            /\ task' = [task EXCEPT ![t].pc = "cacheSet"]
            /\ stats' = [stats EXCEPT !.sets = @ + 1]
            /\ UNCHANGED <<memoryCache, pmVars>>
            /\ lastResp' = NoValue]_vars
  /\ [][\A t \in Tasks :
          (task[t].pc = "returned" /\ task'[t].pc \in {"redisSet", "cacheSet"}) =>
            /\ KeyOf(t) \in DOMAIN memoryCache'
            /\ memoryCache'[KeyOf(t)] = task'[t].result
            /\ stats'.sets = stats.sets + (IF task'[t].pc = "cacheSet" THEN 1 ELSE 0)]_vars
  /\ [](\A kind \in SingleKinds :
          JustAnswered(kind) =>
            IF lastResp.missed
            THEN lastResp.resp = MissOutcome(kind, lastResp.name, lastResp.failed,
                                             lastResp.upstream)
            ELSE /\ lastResp.resp.status = 200
                 /\ lastResp.resp.cached
                 /\ lastResp.invoked = 0)
  /\ [](JustAnswered("batch") =>
          /\ lastResp.resp.status = 200
          /\ \A i \in DOMAIN lastResp.name :
               LET sub == lastResp.name[i] IN
               IF sub.missed
               THEN lastResp.resp.body[i] = SubMissOutcome(sub)
               ELSE /\ lastResp.resp.body[i].status = "fulfilled"
                    /\ sub.invoked = 0)

\* C24 witness: with Redis configured and failing, a resolve that found
\* nothing in the memory tier, whose Redis read and Redis write both failed,
\* was answered with upstream's address, and the resolve after it has just
\* been answered from the memory tier.
C24_Witness ==
  /\ redisOn
  /\ JustAnswered("resolve")
  /\ lastResp.resp.status = 200
  /\ lastResp.resp.cached
  /\ lastResp.afterFresh
  /\ stats.sets = 1
  /\ stats.misses = 1

\* ------------------------------------------- claims: errors and the process

\* C31: an upstream call that fails during a lookup is retried by
\* executeWithFallback, the getText calls of a records lookup included: the
\* records operation hands a result back only when none of its getText calls
\* failed (a failed one makes the operation reject, and the attempt is
\* retried on the next endpoint).
C31_FailedUpstreamCallRetried ==
  records # NoValue =>
    \A i \in DOMAIN TextKeys : resolverTexts[i] # "throws"

\* C32: a step that handles an uncaught error at the top level, an uncaught
\* exception or an unhandled promise rejection, logs it and starts the
\* shutdown: afterwards neither server accepts new work, the cache is being
\* closed, and a shutdown is on its way to the exit (it awaits Redis or its
\* exit timer is set).
C32_UncaughtErrorStartsShutdown ==
  [][(proc' # proc /\ proc'.event \in {"uncaughtException", "unhandledRejection"}) =>
       /\ proc'.logged
       /\ ~proc'.listening
       /\ ~proc'.wsListening
       /\ ~proc'.cacheOpen
       /\ proc'.quits + proc'.timers > 0]_vars

\* ------------------------------------------------ claims: concurrent lookups

\* C33: resolve requests are not coalesced.  A resolve whose cache.get
\* returned nothing enters executeWithFallback and invokes its own operation
\* on the endpoint under the cursor, also while another resolve of the same
\* name is waiting for upstream; so every resolve that missed and has gone
\* past its cache read has made its own upstream call, and each one that is
\* answered 200 carries the address the chain holds for the name, the same
\* for all of them.
C33_NoRequestCoalescing ==
  /\ [][\A t \in Tasks :
          (/\ task[t].pc = "cacheGot"
           /\ task[t].got = NoValue
           /\ task'[t] # task[t]) =>
            /\ task'[t].pc = "op"
            /\ task'[t].provider = currentIndex
            /\ hist'[t].invoked = 1]_vars
  /\ [](\A t \in Tasks :
          (hist[t].missed /\ task[t].pc \notin {"idle", "redisGet", "cacheGot"}) =>
            hist[t].invoked >= 1)
  /\ [](JustAnswered("resolve") =>
          /\ lastResp.missed => lastResp.invoked >= 1 /\ ~lastResp.resp.cached
          /\ lastResp.resp.status = 200 =>
                lastResp.resp.body.address = registry[lastResp.name].address)

\* C33 witness: two resolves of the same name are both waiting for their own
\* upstream call, both having found the cache empty.
C33_Witness ==
  \E t, u \in Tasks :
    /\ t # u
    /\ task[t].pc = "op" /\ task[u].pc = "op"
    /\ task[t].kind = "resolve" /\ task[u].kind = "resolve"
    /\ task[t].name = task[u].name
    /\ hist[t].missed /\ hist[u].missed
    /\ stats.misses = 2
    /\ stats.sets = 0

\* ------------------------------------------------- claims: rotation state

\* C34: the cursor and the failure counters change only in a step in which
\* an operation awaited inside executeWithFallback settles.  An answer of
\* /stats or /health (the failed probe included), a step of a cache
\* operation and a WebSocket or block event leave them as they were, and
\* the provider statistics /health reports are the cursor and the counters
\* as they are.
C34_OnlyExecuteMovesRotation ==
  /\ [][pmVars' # pmVars =>
          \E t \in Tasks : task[t].pc = "op" /\ task'[t] # task[t]]_vars
  /\ [][(IF lastResp' = NoValue THEN FALSE
         ELSE lastResp'.kind \in {"stats", "health"}) => UNCHANGED pmVars]_vars
  /\ [][(cacheCall' # cacheCall \/ cacheVars' # cacheVars) => UNCHANGED pmVars]_vars
  /\ [][wsVars' # wsVars => UNCHANGED pmVars]_vars
  /\ []((JustAnswered("health") /\ lastResp.resp.status = 200) =>
          lastResp.resp.body.provider =
            [totalProviders |-> NumProviders, currentProvider |-> currentIndex,
             failures |-> failureCount])

\* C34 witness: the health probe has just failed and been answered 503,
\* with the cursor away from endpoint 0 and failures counted, after a cache
\* write and with a WebSocket connection open.
C34_Witness ==
  /\ JustAnswered("health")
  /\ lastResp.resp.status = 503
  /\ currentIndex # 0
  /\ \E i \in DOMAIN failureCount : failureCount[i] > 0
  /\ stats.sets > 0
  /\ Connected # {}

\* C35: the failure counters have no part in the choice of the endpoint.
\* Every attempt, the first of a call and each one after a failure, goes to
\* the endpoint under the cursor, and after a failure the cursor is on the
\* endpoint that follows the failed one in the ring, whatever is counted
\* against either; a success on an endpoint that had failures counted
\* against it sets its counter to zero.
C35_CountersDoNotSteer ==
  /\ [][\A t \in Tasks :
          (/\ task'[t].pc = "op"
           /\ task[t].pc # "op" \/ task'[t].attempt # task[t].attempt) =>
            task'[t].provider = currentIndex']_vars
  /\ [][\A t \in Tasks :
          (task[t].pc = "op" /\ task'[t].attempt = task[t].attempt + 1) =>
            currentIndex' = (currentIndex + 1) % NumProviders]_vars
  /\ [][\A t \in Tasks :
          (task[t].pc = "op" /\ task'[t].pc = "returned") =>
            /\ task'[t].out.from = task[t].provider
            /\ currentIndex' = currentIndex
            /\ failureCount'[currentIndex] = 0]_vars

\* C35 witness: a call that ran alone has succeeded on an endpoint that had
\* a failure counted against it when the call started, rotation having come
\* back to it; its counter is zero again.
C35_Witness ==
  \E t \in Tasks :
    /\ task[t].pc = "returned"
    /\ hist[t].alone
    /\ Count(hist[t].f0, task[t].out.from) > 0
    /\ Count(failureCount, task[t].out.from) = 0
    /\ currentIndex = task[t].out.from

\* ------------------------------------------------- claims: cache contents

\* C36: every entry under a resolve:<name> key, in either tier, holds an
\* address that is not null, and a single resolve never answers 200 with a
\* null address.
C36_ResolveEntriesHaveAddress ==
  /\ \A key \in DOMAIN memoryCache :
       key[1] = "resolve" => memoryCache[key].address # Null
  /\ \A key \in DOMAIN redisStore :
       key[1] = "resolve" => Parse(redisStore[key].text).address # Null
  /\ (JustAnswered("resolve") /\ lastResp.resp.status = 200) =>
       lastResp.resp.body.address # Null

\* ------------------------------------------------------ claims: NotFound

\* C37: what makes a lookup NotFound is not a provider failure.  The step in
\* which resolveName answers null, and the step in which the records
\* operation finds no resolver, leave the cursor where it is, raise no
\* failure counter and are not followed by another attempt.
C37_NotFoundIsNotProviderFailure ==
  /\ [][\A t \in Tasks :
          (/\ task[t].pc = "op"
           /\ task[t].kind = "resolve"
           /\ task'[t].pc = "returned"
           /\ task'[t].out.val = Null) =>
            /\ currentIndex' = currentIndex
            /\ \A i \in Endpoints : Count(failureCount', i) <= Count(failureCount, i)]_vars
  /\ [][\A t \in Tasks :
          (/\ task[t].pc = "op"
           /\ task[t].kind = "records"
           /\ task'[t].attempt = task[t].attempt + 1
           /\ task'[t].lastError = "ENS resolver not found") =>
            /\ currentIndex' = currentIndex
            /\ \A i \in Endpoints : Count(failureCount', i) <= Count(failureCount, i)
            /\ task'[t].pc # "op"]_vars

\* -------------------------------------------- claims: a healthy endpoint

\* The call in slot t is over.
Over(t) == task[t].pc \in {"returned", "threw"}

\* C38: with four endpoints, three attempts a call and one endpoint that
\* answers every attempt made on it, of two calls made one after the other
\* at least one succeeds; a call that fails leaves the cursor on the healthy
\* endpoint; a call made after a success makes its first attempt on the
\* endpoint that succeeded, and every call made after a success on the
\* healthy endpoint succeeds there on its first attempt.
C38_HealthyEndpointIsFound ==
  /\ \A t \in Tasks : (t + 1 \in Tasks /\ Over(t) /\ Over(t + 1)) =>
        task[t].pc = "returned" \/ task[t + 1].pc = "returned"
  /\ \A t \in Tasks : (task[t].pc = "threw" /\ (t + 1 \in Tasks => task[t + 1].pc = "idle")) =>
        currentIndex = registry.healthy
  /\ \A t \in Tasks :
        (t + 1 \in Tasks /\ task[t].pc = "returned" /\ task[t + 1].pc = "op"
           /\ task[t + 1].attempt = 0) =>
          task[t + 1].provider = task[t].out.from
  /\ \A t, u \in Tasks :
        (/\ t < u
         /\ task[t].pc = "returned"
         /\ task[t].out.from = registry.healthy
         /\ Over(u)) =>
          /\ task[u].pc = "returned"
          /\ task[u].attempt = 0
          /\ task[u].out.from = registry.healthy

\* C38 witness: a call failed on three endpoints, and the call after it has
\* succeeded, on its first attempt, on the healthy one.
C38_Witness ==
  \E t \in Tasks :
    /\ t + 1 \in Tasks
    /\ task[t].pc = "threw"
    /\ task[t].attempt = DefaultMaxRetries
    /\ task[t + 1].pc = "returned"
    /\ task[t + 1].attempt = 0
    /\ task[t + 1].out.from = registry.healthy

\* ------------------------------------------ claims: failures and the cache

\* This step sends the answer of a single lookup, and it is an error.
FailureAnswered ==
  /\ lastResp' # NoValue
  /\ IF lastResp' = NoValue THEN FALSE
     ELSE /\ lastResp'.kind \in {"resolve", "records"}
          /\ lastResp'.resp.status # 200

\* This step puts or changes an entry of the memory tier, changes the Redis
\* store or counts a set.
CacheWritten ==
  \/ \E k \in DOMAIN memoryCache' :
       k \notin DOMAIN memoryCache \/ memoryCache'[k] # memoryCache[k]
  \/ redisStore' # redisStore
  \/ stats'.sets # stats.sets

\* C39: a lookup that is answered with an error (400, 404, or the error of
\* the exhausted attempts) never ran cache.set, and the step that answers it
\* leaves both tiers and the set counter as they are; the entry it did not
\* find is still not in the memory tier; a single resolve that got a null
\* address never writes; only a lookup that reads an entry from Redis or one
\* that runs cache.set changes the cache, and such a lookup is answered 200.
C39_FailedLookupWritesNothing ==
  [][/\ FailureAnswered =>
          /\ lastResp'.wrote = NoValue
          /\ memoryCache' = memoryCache
          /\ redisStore' = redisStore
          /\ stats'.sets = stats.sets
          /\ lastResp'.missed =>
                CacheKey(lastResp'.kind, lastResp'.name) \notin DOMAIN memoryCache'
     /\ \A t \in Tasks :
          (task'[t].kind = "resolve" /\ hist'[t].upstream = Null) =>
            hist'[t].wrote = NoValue
     /\ CacheWritten =>
          \E t \in Tasks :
            \/ hist'[t].wrote # NoValue
            \/ task'[t].pc = "cacheGot" /\ task'[t].got # NoValue
     /\ \A t \in Tasks :
          (/\ task[t].kind \in {"resolve", "records"}
           /\ task'[t].pc = "idle"
           /\ \/ hist[t].wrote # NoValue
              \/ task[t].pc = "cacheGot" /\ task[t].got # NoValue) =>
            lastResp'.resp.status = 200]_vars

\* C39 witness: after a lookup that was answered 200 and counted a set, a
\* lookup that missed the cache has run out of its three attempts and been
\* answered with an error; the set counter still reads one.
C39_Witness ==
  /\ lastResp # NoValue
  /\ IF lastResp = NoValue THEN FALSE
     ELSE /\ lastResp.resp.status \notin {200, 400, 404}
          /\ lastResp.missed
          /\ lastResp.failed = DefaultMaxRetries
          /\ lastResp.wrote = NoValue
  /\ stats.sets = 1

\* ------------------------------------------- claims: the cache counters

\* This step returns from a call of the CacheManager method op.
Returns(op) ==
  /\ lastRet' # NoValue
  /\ IF lastRet' = NoValue THEN FALSE ELSE lastRet'.op = op

\* The calls of the CacheManager that have not returned.
CallsInFlight == {c \in Callers : cacheCall[c].pc # "idle"}

\* C40: the step in which a cache.get returns counts it once, as a hit when
\* a tier served it and as a miss when none did (an error of the Redis read
\* included), and leaves sets alone; the step in which a cache.set returns
\* raises sets by one, whether the Redis write succeeded or not, and leaves
\* hits and misses alone; no other step changes a counter; so the counters
\* never exceed the number of calls that have returned.
C40_CountersCountCompletedCalls ==
  [][/\ Returns("get") =>
          /\ stats'.sets = stats.sets
          /\ IF lastRet'.served = "none"
             THEN stats'.misses = stats.misses + 1 /\ stats'.hits = stats.hits
             ELSE stats'.hits = stats.hits + 1 /\ stats'.misses = stats.misses
     /\ Returns("set") =>
          /\ stats'.sets = stats.sets + 1
          /\ stats'.hits = stats.hits
          /\ stats'.misses = stats.misses
     /\ (~Returns("get") /\ ~Returns("set")) => stats' = stats
     /\ \A c \in Callers :
          (cacheCall[c].pc = "redisGet" /\ cacheCall'[c].pc = "idle") => Returns("get")
     /\ \A c \in Callers :
          (cacheCall[c].pc = "redisSet" /\ cacheCall'[c].pc = "idle") => Returns("set")
     /\ stats.hits + stats.misses + stats.sets <= started - Cardinality(CallsInFlight)]_vars

\* C40 witness: with Redis configured, a get has found nothing in either
\* tier (or its Redis read failed) and a set has just returned after its
\* Redis write failed; each is counted once.
C40_Witness ==
  /\ lastRet # NoValue
  /\ IF lastRet = NoValue THEN FALSE
     ELSE lastRet.op = "set" /\ lastRet.failed
  /\ redisOn
  /\ stats = [hits |-> 0, misses |-> 1, sets |-> 1]
  /\ started = 2
  /\ CallsInFlight = {}

====
